---- MODULE Spec2Model ----
(***************************************************************************)
(* Model of the WebGL streamline visualiser:                               *)
(*   - StreamlineVisualiser (src/src/visualiser.ts): lifecycle, setters,  *)
(*     adaptive sub-stepping and the per-frame pass sequence;              *)
(*   - ParticlePropagator (src/src/render/propagator.ts), both the        *)
(*     index-elimination and the age version: buffer roles and resets;    *)
(*   - TextureRenderer (src/src/render/texture.ts): the two framebuffers; *)
(*   - particle.vert.glsl (src/unnamed/part_004): the per-particle update.*)
(*                                                                         *)
(* Numbers.  JavaScript numbers are modelled as extended rationals        *)
(* (a fraction, +Infinity, -Infinity or NaN) with exact arithmetic, so    *)
(* "within floating tolerance" reads as exact equality here.  GPU object  *)
(* handles are positive integers drawn from one counter; 0 is null.       *)
(***************************************************************************)
EXTENDS Integers, Sequences, FiniteSets, TLC

VARIABLES
    \* ---- StreamlineVisualiser fields (visualiser.ts:41-60) ----
    hasSpriteUrl,            \* options.spriteUrl is set
    isRendering,
    width, height,
    numParticles,            \* _numParticles
    maxDisplacement,         \* _options.maxDisplacement
    speedFactor,             \* _options.speedFactor
    speedExponent,           \* _options.speedExponent: << >> when undefined,
                             \* << e >> when it is e
    textureRenderer,         \* non-null?
    particlePropagator,      \* non-null?
    particleRenderer,        \* non-null?
    finalRenderer,           \* non-null?
    spriteRenderer,          \* non-null?
    previousParticleTexture, \* texture handle, 0 = null
    currentParticleTexture,  \* texture handle, 0 = null
    velocityImage,           \* index into Images, 0 = null
    finalVelocityImage,      \* FinalRenderer.velocityImage, 0 = null
    colorMap,                \* 0 = null
    dtMin,                   \* extended rational
    \* ---- TextureRenderer fields (texture.ts:9-10): the colour
    \*      attachment of each framebuffer, 0 = nothing attached ----
    previousFramebuffer,
    currentFramebuffer,
    \* ---- ParticlePropagator fields (propagator.ts:12-22, 326-337) ----
    mode,                    \* "index" or "age": which version of the class
    prop,                    \* record, see NewPropagator
    bufTag,                  \* handle -> what the buffer holds
    pdata,                   \* handle -> particle list (particle-level runs)
    \* ---- the WebGL context: handles created and not deleted ----
    nextTexture,             \* next texture handle
    nextBuffer,              \* next buffer handle
    liveTextures,
    liveBuffers,
    \* ---- control state of the asynchronous initialise() ----
    initPc,                  \* "idle" | "compiling" | "sprite"
    initCalls,               \* number of initialise() calls started
    initCompleted,           \* some initialise() call ran to completion
    destructed,              \* destruct() has been called
    \* ---- WMSStreamlineLayer fields (visualiser.ts:674-694) ----
    layer,                   \* record, see NewLayer
    \* ---- a ShaderProgram (shader-program.ts:9-15) ----
    program,                 \* record, see NewShaderProgram
    \* ---- ParticleRenderer fields (particles.ts:13-21) of the particle
    \*      and the sprite renderer, and the size of each particle buffer ----
    particleData,            \* record, see NoParticleData
    \* ---- record of the last call (observation only) ----
    lastOp,                  \* name of the last method called
    threw,                   \* it ended by throwing
    passes,                  \* GPU passes the last renderFrame issued
    frame                    \* sub-stepping numbers of the last renderFrame

vars == << hasSpriteUrl, isRendering, width, height, numParticles,
           maxDisplacement, speedFactor, textureRenderer, particlePropagator,
           particleRenderer, finalRenderer, spriteRenderer,
           previousParticleTexture, currentParticleTexture, velocityImage,
           finalVelocityImage, colorMap, dtMin, previousFramebuffer, currentFramebuffer, mode,
           prop, bufTag, pdata, nextTexture, nextBuffer, liveTextures,
           liveBuffers, initPc,
           initCalls, initCompleted, destructed, layer, program,
           speedExponent, particleData, lastOp, threw, passes, frame >>

\* the fields a call on the visualiser can change, without the record of
\* the last call
visState == << hasSpriteUrl, isRendering, width, height, numParticles,
               maxDisplacement, speedFactor, textureRenderer,
               particlePropagator, particleRenderer, finalRenderer,
               spriteRenderer, previousParticleTexture,
               currentParticleTexture, velocityImage, finalVelocityImage,
               colorMap, dtMin, previousFramebuffer, currentFramebuffer, prop, bufTag,
               nextTexture, nextBuffer, liveTextures, liveBuffers >>

-----------------------------------------------------------------------------
\* Bounds of the model.

\* texture handles the context can hand out
MaxTextures == 6
\* buffer handles the context can hand out
MaxBuffers == 4
\* initialise() calls that may be started
MaxInitCalls == 1
-----------------------------------------------------------------------------
\* Extended rationals: JavaScript number arithmetic without rounding.

Fin(n, d) == [k |-> "fin", n |-> IF d < 0 THEN -n ELSE n,
                           d |-> IF d < 0 THEN -d ELSE d]
PInf == [k |-> "pinf", n |-> 0, d |-> 1]
NInf == [k |-> "ninf", n |-> 0, d |-> 1]
NaN  == [k |-> "nan",  n |-> 0, d |-> 1]

IsFin(a) == a.k = "fin"

\* a / b (IEEE: x/0 is an infinity, 0/0 and inf/inf are NaN)
ExtDiv(a, b) ==
    IF a.k = "nan" \/ b.k = "nan" THEN NaN
    ELSE IF IsFin(a) /\ IsFin(b) THEN
        IF b.n = 0 THEN (IF a.n = 0 THEN NaN
                         ELSE IF a.n > 0 THEN PInf ELSE NInf)
        ELSE Fin(a.n * b.d, a.d * b.n)
    ELSE IF IsFin(a) THEN Fin(0, 1)
    ELSE IF IsFin(b) THEN
        (IF (a.k = "pinf") = (b.n >= 0) THEN PInf ELSE NInf)
    ELSE NaN

\* a < b (false when either is NaN)
ExtLt(a, b) ==
    IF a.k = "nan" \/ b.k = "nan" THEN FALSE
    ELSE IF a.k = "pinf" \/ b.k = "ninf" THEN FALSE
    ELSE IF a.k = "ninf" \/ b.k = "pinf" THEN TRUE
    ELSE a.n * b.d < b.n * a.d

ExtEq(a, b) ==
    IF a.k = "nan" \/ b.k = "nan" THEN FALSE
    ELSE IF IsFin(a) /\ IsFin(b) THEN a.n * b.d = b.n * a.d
    ELSE a.k = b.k

\* Math.min(a, b)
ExtMin(a, b) ==
    IF a.k = "nan" \/ b.k = "nan" THEN NaN
    ELSE IF ExtLt(b, a) THEN b ELSE a

\* Math.floor(a)
ExtFloor(a) == IF IsFin(a) THEN Fin(a.n \div a.d, 1) ELSE a

\* a * b for finite a, b
ExtMul(a, b) ==
    IF a.k = "nan" \/ b.k = "nan" THEN NaN
    ELSE IF IsFin(a) /\ IsFin(b) THEN Fin(a.n * b.n, a.d * b.d)
    ELSE IF (IsFin(a) /\ a.n = 0) \/ (IsFin(b) /\ b.n = 0) THEN NaN
    ELSE IF (a.k = "pinf" \/ (IsFin(a) /\ a.n > 0))
            = (b.k = "pinf" \/ (IsFin(b) /\ b.n > 0)) THEN PInf ELSE NInf

MaxInt(a, b) == IF a >= b THEN a ELSE b

-----------------------------------------------------------------------------
\* Velocity images.  uOffset/uScale/vOffset/vScale are the decode transform
\* physical = raw * scale + offset with raw in [0, 1]; field names the raster
\* content used by the particle-level runs.
Images == <<
    \* both axes span [-1, 1]
    [uOffset |-> -1, uScale |-> 2, vOffset |-> -1, vScale |-> 2,
     field |-> "data"],
    \* u spans [-2, -1]: both decoded extremes negative on one axis
    [uOffset |-> -2, uScale |-> 1, vOffset |-> -1, vScale |-> 2,
     field |-> "data"],
    \* every texel is the no-data sentinel
    [uOffset |-> -1, uScale |-> 2, vOffset |-> -1, vScale |-> 2,
     field |-> "nodata"],
    \* data on the left half, no data on the right half
    [uOffset |-> -1, uScale |-> 2, vOffset |-> -1, vScale |-> 2,
     field |-> "mixed"] >>

ImageIds == 1 .. Len(Images)

\* VelocityImage.maxVelocity
maxVelocity(img) ==
    << MaxInt(0 * img.uScale + img.uOffset, 1 * img.uScale + img.uOffset),
       MaxInt(0 * img.vScale + img.vOffset, 1 * img.vScale + img.vOffset) >>

\* StreamlineVisualiser.computeMinimumTimeStep, for velocity image index i,
\* canvas w x h, options.maxDisplacement md and options.speedFactor sf
computeMinimumTimeStep(i, w, h, md, sf) ==
    LET maxDisplacementX == Fin(md * 2, w)
        maxDisplacementY == Fin(md * 2, h)
        mv   == maxVelocity(Images[i])
        maxU == Fin(mv[1] * h * sf, w)
        maxV == Fin(mv[2] * sf, 1)
        dtMinU == ExtDiv(maxDisplacementX, maxU)
        dtMinV == ExtDiv(maxDisplacementY, maxV)
    IN  ExtMin(dtMinU, dtMinV)

-----------------------------------------------------------------------------
\* SpeedCurve (src/src/utils/speedcurve.ts): speed -> factor * speed^exponent.
\* Exponents and speeds are natural numbers here, factors are extended
\* rationals.

RECURSIVE Pow(_, _)
\* Math.pow(b, e) for natural e
Pow(b, e) == IF e = 0 THEN 1 ELSE b * Pow(b, e - 1)

\* new SpeedCurve(exponent, factor, baseFactor)
SpeedCurve(exponent, factor, baseFactor) ==
    [exponent |-> exponent, factor |-> factor, baseFactor |-> baseFactor]

\* SpeedCurve.fromExponentFactorAndSpeed
fromExponentFactorAndSpeed(exponent, factor, speed) ==
    LET transformedSpeed == Fin(Pow(speed, exponent), 1)
        finalFactor == ExtDiv(Fin(factor * speed, 1), transformedSpeed)
    IN  SpeedCurve(exponent, finalFactor, factor)

\* colormap.end of colormap c: the last value of its colour scale
ColormapEnd(c) == c + 1

\* options.speedExponent ?? 1.0
ExponentOrDefault(e) == IF e = << >> THEN 1 ELSE e[1]

\* StreamlineVisualiser.computeSpeedCurve(colormap, options)
computeSpeedCurve(c, sf, e) ==
    fromExponentFactorAndSpeed(ExponentOrDefault(e), sf, ColormapEnd(c))

-----------------------------------------------------------------------------
\* ParticlePropagator: buffer roles.

\* the propagator as its constructor leaves it; written, readAt and
\* writtenBefore only observe which buffer was written last and which one the
\* last update() bound as its input
NewPropagator(n, nAlloc, age) ==
    [ inputBuffers |-> 0, outputBuffers |-> 0,
      velocityImage |-> 0, velocityTexture |-> FALSE,
      numParticles |-> n, numParticlesAllocate |-> nAlloc, maxAge |-> age,
      numEliminatePerSecond |-> 0,
      speedCurve |-> SpeedCurve(1, Fin(1, 1), 1),
      written |-> 0, readAt |-> 0, writtenBefore |-> 0 ]

\* ParticlePropagator.swapBuffers
swapBuffers(p) ==
    [p EXCEPT !.inputBuffers = p.outputBuffers,
              !.outputBuffers = p.inputBuffers]

\* ParticlePropagator.resetBuffers with the two new handles a (seeded) and b.
\* The age version swaps at its end, the index version leaves that to its
\* callers.
resetBuffers(p, a, b) ==
    LET q == [p EXCEPT !.inputBuffers = a, !.outputBuffers = b,
                       !.written = a]
    IN  IF mode = "age" THEN swapBuffers(q) ELSE q

\* ParticlePropagator.initialise without the swap after resetBuffers
PropInitialiseNoSwap(p, a, b) == resetBuffers(p, a, b)

\* ParticlePropagator.initialise
PropInitialise(p, a, b) ==
    IF mode = "index" THEN swapBuffers(resetBuffers(p, a, b))
    ELSE resetBuffers(p, a, b)

\* ParticlePropagator.setNumParticles
PropSetNumParticles(p, n, nAlloc, a, b) ==
    LET q == [p EXCEPT !.numParticles = n, !.numParticlesAllocate = nAlloc]
    IN  IF mode = "index" THEN swapBuffers(resetBuffers(q, a, b))
        ELSE resetBuffers(q, a, b)

\* ParticlePropagator.setMaxAge (age version)
PropSetMaxAge(p, age, a, b) == resetBuffers([p EXCEPT !.maxAge = age], a, b)

\* ParticlePropagator.setSpeedCurve
setSpeedCurve(p, curve) == [p EXCEPT !.speedCurve = curve]

\* ParticlePropagator.setVelocityImage
PropSetVelocityImage(p, i) ==
    [p EXCEPT !.velocityImage = i, !.velocityTexture = TRUE]

\* ParticlePropagator.update: the checks that throw before anything is bound
UpdateThrows(p) ==
    \/ p.inputBuffers = 0 \/ p.outputBuffers = 0
    \/ ~p.velocityTexture

\* ParticlePropagator.update: roles after the swap at its start
PropUpdate(p) ==
    LET q == swapBuffers(p)
    IN  [q EXCEPT !.readAt = q.inputBuffers, !.writtenBefore = p.written,
                  !.written = q.outputBuffers]

\* the `buffer` / `buffers` getter
PropBuffer(p) == p.outputBuffers

\* what a buffer holds
TagNone     == [kind |-> "none", img |-> 0]
TagZero     == [kind |-> "zero", img |-> 0]
TagSeeded   == [kind |-> "seeded", img |-> 0]
TagDeleted  == [kind |-> "deleted", img |-> 0]
TagComputed(i) == [kind |-> "computed", img |-> i]

\* bufTag after resetBuffers deleted the buffers of p and created a and b
TagsAfterReset(p, a, b) ==
    [x \in 1 .. MaxBuffers |->
        IF x = a THEN TagSeeded
        ELSE IF x = b THEN TagZero
        ELSE IF x \in {p.inputBuffers, p.outputBuffers} THEN TagDeleted
        ELSE bufTag[x]]

-----------------------------------------------------------------------------
\* StreamlineVisualiser.

\* widthParticleDataTexture: Math.ceil(Math.sqrt(n))
widthParticleDataTexture(n) ==
    CHOOSE w \in 0 .. n : w * w >= n /\ \A v \in 0 .. n : v * v >= n => w <= v

\* numParticlesAllocate
numParticlesAllocate(n) ==
    widthParticleDataTexture(n) * widthParticleDataTexture(n)

\* heightParticleDataTexture
heightParticleDataTexture(n) == widthParticleDataTexture(n)

\* the fields of a ParticleRenderer that describe the particle data
ParticleRendererData(n, w, h) ==
    [numParticles |-> n, widthParticleDataTexture |-> w,
     heightParticleDataTexture |-> h]

\* no renderer constructed
NoRenderer == ParticleRendererData(0, 0, 0)

\* before initialise: no renderers, no particle buffers
NoParticleData ==
    [particle |-> NoRenderer, sprite |-> NoRenderer,
     capacity |-> [x \in 1 .. MaxBuffers |-> 0]]

\* createParticleBuffer / new ParticleBuffers(gl, numParticlesAllocate) for
\* the two handles a and b: room for nAlloc particles each
CapacityAfterReset(a, b, nAlloc) ==
    [x \in 1 .. MaxBuffers |->
        IF x \in {a, b} THEN nAlloc ELSE particleData.capacity[x]]

\* the isInitialised getter
isInitialised == particlePropagator /\ particleRenderer /\ finalRenderer

NoFrame == [dt |-> 0, n |-> NaN, dtSub |-> NaN, loops |-> 0,
            running |-> FALSE, stepped |-> FALSE]

\* the record of a call that is not a rendered frame
Done(op, t) ==
    /\ lastOp' = op
    /\ threw' = t
    /\ passes' = << >>
    /\ frame' = NoFrame

NoTags == [x \in 1 .. MaxBuffers |-> TagNone]

\* particle contents of the buffers: parts[h] is the list of particles buffer
\* h holds (empty while h is not allocated); steps counts the updates since
\* the last reset or velocity image change (capped); dt is the last
\* update's time step
NoParticles == [parts |-> [x \in 1 .. MaxBuffers |-> << >>],
                steps |-> 0, dt |-> 0]

\* the WMSStreamlineLayer as its constructor leaves it (visualiser.ts:705-730):
\* updateVelocityField calls that may wait for their fetch at the same time
MaxFetches == 2

\* map and _visualiser null, no bounding box (0), a fresh AbortController;
\* pending holds, for every updateVelocityField call that waits for its
\* fetch, its doResetParticles argument, the boundingBox it computed before
\* the await and the number that tells the call from the other waiting
\* one; reported tells whether the last handler wrote an error to the
\* console.  The rest only observes: overtaken (of a waiting call) and
\* imageOvertaken (of the call that set the current velocity image) tell
\* that a call made later had set its image before; imageBox is the
\* boundingBox of the call that set the current velocity image; loading
\* tells per call whether it has invoked onStartLoading ("started"), then
\* onEndLoading ("ended"), or has returned or thrown without ("returned")
NewLayer ==
    [ map |-> FALSE, visualiser |-> FALSE, boundingBoxWMS |-> 0,
      aborted |-> FALSE, pending |-> << >>, reported |-> FALSE,
      imageBox |-> 0, imageOvertaken |-> FALSE,
      loading |-> [u \in 1 .. MaxFetches |-> "idle"] ]

\* a ShaderProgram as its constructor leaves it (shader-program.ts:17-47),
\* for two shaders and a WebGL program of which vertexOk, fragmentOk and
\* linkable tell whether the vertex shader compiles, the fragment shader
\* compiles and the two link.  compileAttempts are the hasCompileAttempt
\* flags of the two shaders; linking counts the link() calls suspended in
\* waitForLinking; linkedOk and result only observe: some link() call has
\* completed without throwing, and the value the last lookup returned;
\* compileShaderCalls and linkProgramCalls count the gl.compileShader calls
\* issued for each shader and the gl.linkProgram calls issued for the
\* program, up to MaxCounted
NewShaderProgram(vertexOk, fragmentOk, linkable) ==
    [ vertexOk |-> vertexOk, fragmentOk |-> fragmentOk,
      linkable |-> linkable,
      compileAttempts |-> FALSE, isLinked |-> FALSE,
      attributes |-> {}, uniforms |-> {},
      linking |-> 0, deleted |-> FALSE,
      linkedOk |-> FALSE, name |-> "", result |-> "",
      compileShaderCalls |-> 0, linkProgramCalls |-> 0 ]

\* the fields as the constructors leave them, apart from the sprite option,
\* the propagator, the shader program and the number of particles
InitFieldsButCount ==
    /\ isRendering = FALSE
    /\ width = 1 /\ height = 1
    /\ maxDisplacement = 1
    /\ speedFactor = 1
    /\ speedExponent = << >>
    /\ particleData = NoParticleData
    /\ textureRenderer = FALSE
    /\ particlePropagator = FALSE
    /\ particleRenderer = FALSE
    /\ finalRenderer = FALSE
    /\ spriteRenderer = FALSE
    /\ previousParticleTexture = 0
    /\ currentParticleTexture = 0
    /\ velocityImage = 0
    /\ finalVelocityImage = 0
    /\ colorMap = 0
    /\ dtMin = Fin(0, 1)
    /\ previousFramebuffer = 0
    /\ currentFramebuffer = 0
    /\ bufTag = NoTags
    /\ pdata = NoParticles
    /\ nextTexture = 1
    /\ nextBuffer = 1
    /\ liveTextures = {}
    /\ liveBuffers = {}
    /\ initPc = "idle"
    /\ initCalls = 0
    /\ initCompleted = FALSE
    /\ destructed = FALSE
    /\ layer = NewLayer
    /\ lastOp = "new"
    /\ threw = FALSE
    /\ passes = << >>
    /\ frame = NoFrame

\* the fields as the constructors leave them, apart from the sprite option,
\* the propagator and the shader program
InitFieldsButProgram ==
    /\ InitFieldsButCount
    /\ numParticles = 1

\* the fields as the constructors leave them, apart from the sprite option
\* and the propagator
InitFields ==
    /\ InitFieldsButProgram
    /\ program = NewShaderProgram(TRUE, TRUE, TRUE)

\* a new StreamlineVisualiser: no propagator yet (the visualiser uses the
\* index-elimination version)
Init ==
    /\ hasSpriteUrl \in BOOLEAN
    /\ mode = "index"
    /\ prop = NewPropagator(0, 0, 0)
    /\ InitFields

\* resetParticleTexture without textureRenderer.resetParticleTextures: the
\* new textures are not attached to the framebuffers
resetParticleTextureDetached(hasTextureRenderer) ==
    /\ nextTexture + 1 <= MaxTextures
    /\ previousParticleTexture' = nextTexture
    /\ currentParticleTexture' = nextTexture + 1
    /\ liveTextures' = liveTextures \cup {nextTexture, nextTexture + 1}
    /\ nextTexture' = nextTexture + 2
    /\ UNCHANGED << previousFramebuffer, currentFramebuffer >>

\* lines 195-200 of initialise, and resetParticleTexture: two new zero
\* textures, attached to the texture renderer's framebuffers when
\* there is a texture renderer (textureRenderer?.resetParticleTextures)
resetParticleTexture(hasTextureRenderer) ==
    /\ nextTexture + 1 <= MaxTextures
    /\ previousParticleTexture' = nextTexture
    /\ currentParticleTexture' = nextTexture + 1
    /\ liveTextures' = liveTextures \cup {nextTexture, nextTexture + 1}
    /\ nextTexture' = nextTexture + 2
    /\ IF hasTextureRenderer
       THEN /\ previousFramebuffer' = nextTexture
            /\ currentFramebuffer' = nextTexture + 1
       ELSE UNCHANGED << previousFramebuffer, currentFramebuffer >>

\* initialise(colormap) up to its first await (compileShaderPrograms); the
\* method has no guard of its own, a call may start whenever no other call
\* of it is suspended
initialiseBegin(c) ==
    /\ initPc = "idle"
    /\ colorMap' = c
    /\ initPc' = "compiling"
    /\ initCalls' = initCalls + 1
    /\ Done("initialise", FALSE)
    /\ UNCHANGED << hasSpriteUrl, isRendering, width, height, numParticles,
                    maxDisplacement, speedFactor, textureRenderer,
                    particlePropagator, particleRenderer, finalRenderer,
                    spriteRenderer, previousParticleTexture,
                    currentParticleTexture, velocityImage,
                    finalVelocityImage, dtMin, previousFramebuffer,
                    currentFramebuffer, mode, prop, bufTag, pdata,
                    nextTexture, nextBuffer, liveTextures, liveBuffers,
                    initCompleted, destructed, layer, program,
                    speedExponent, particleData >>

\* a call of initialise(colormap), as long as calls may be started
initialise(c) == initCalls < MaxInitCalls /\ initialiseBegin(c)

\* one more call of initialise(colormap), on a visualiser on which a call
\* has run to completion (WMSStreamlineLayer.setWmsLayer makes such a call)
initialiseAgain(c) ==
    /\ initCompleted
    /\ initCalls <= MaxInitCalls
    /\ initialiseBegin(c)

\* initialise resumes after compileShaderPrograms: linking failed (the call
\* rejects) or succeeded (lines 133-173, then either the await for the sprite
\* texture or lines 195-200)
initialiseLinked(ok) ==
    /\ initPc = "compiling"
    /\ IF ~ok
       THEN /\ initPc' = "idle"
            /\ Done("initialise", TRUE)
            /\ UNCHANGED << visState, initCompleted, particleData >>
       ELSE /\ nextBuffer + 1 <= MaxBuffers
            /\ textureRenderer' = TRUE
            /\ particlePropagator' = TRUE
            /\ particleRenderer' = TRUE
            /\ finalRenderer' = TRUE
            /\ finalVelocityImage' = 0
            /\ prop' = PropInitialise(
                         setSpeedCurve(
                             NewPropagator(numParticles,
                                 numParticlesAllocate(numParticles), 0),
                             computeSpeedCurve(colorMap, speedFactor,
                                               speedExponent)),
                         nextBuffer, nextBuffer + 1)
            /\ bufTag' = TagsAfterReset(NewPropagator(0, 0, 0),
                                        nextBuffer, nextBuffer + 1)
            /\ liveBuffers' = liveBuffers \cup {nextBuffer, nextBuffer + 1}
            /\ nextBuffer' = nextBuffer + 2
            /\ particleData' =
                  [particle |-> ParticleRendererData(numParticles,
                                    widthParticleDataTexture(numParticles),
                                    heightParticleDataTexture(numParticles)),
                   sprite   |-> particleData.sprite,
                   capacity |-> CapacityAfterReset(nextBuffer, nextBuffer + 1,
                                    numParticlesAllocate(numParticles))]
            /\ IF hasSpriteUrl
               THEN /\ initPc' = "sprite"
                    /\ previousFramebuffer' = 0
                    /\ currentFramebuffer' = 0
                    /\ UNCHANGED << previousParticleTexture,
                                    currentParticleTexture, liveTextures,
                                    nextTexture, initCompleted >>
               ELSE /\ initPc' = "idle"
                    /\ resetParticleTexture(TRUE)
                    /\ initCompleted' = TRUE
            /\ Done("initialise", FALSE)
            /\ UNCHANGED << hasSpriteUrl, isRendering, width, height,
                            numParticles, maxDisplacement, speedFactor,
                            spriteRenderer, velocityImage, colorMap, dtMin >>
    /\ UNCHANGED << mode, pdata, initCalls, destructed, layer, program,
                    speedExponent >>

\* initialise resumes after createSpriteTexture: decoding failed (the call
\* rejects) or succeeded (lines 179-200)
initialiseSprite(ok) ==
    /\ initPc = "sprite"
    /\ initPc' = "idle"
    /\ IF ~ok
       THEN /\ Done("initialise", TRUE)
            /\ UNCHANGED << visState, initCompleted, particleData >>
       ELSE /\ spriteRenderer' = TRUE
            /\ particleData' =
                  [particleData EXCEPT !.sprite =
                      ParticleRendererData(numParticles,
                          widthParticleDataTexture(numParticles),
                          heightParticleDataTexture(numParticles))]
            /\ resetParticleTexture(TRUE)
            /\ initCompleted' = TRUE
            /\ Done("initialise", FALSE)
            /\ UNCHANGED << hasSpriteUrl, isRendering, width, height,
                            numParticles, maxDisplacement, speedFactor,
                            textureRenderer, particlePropagator,
                            particleRenderer, finalRenderer, velocityImage,
                            finalVelocityImage, colorMap, dtMin, prop,
                            bufTag, liveBuffers, nextBuffer >>
    /\ UNCHANGED << mode, pdata, initCalls, destructed, layer, program,
                    speedExponent >>

\* control state and options no setter but updateOptions changes
ctlButData == << mode, pdata, initPc, initCalls, initCompleted, layer,
                program, speedExponent >>

ctl == << ctlButData, particleData >>

\* start() without the isInitialised check of lines 204-206
startUnchecked ==
    /\ Done("start", FALSE)
    /\ isRendering' = TRUE
    /\ UNCHANGED << hasSpriteUrl, width, height, numParticles,
                    maxDisplacement, speedFactor, textureRenderer,
                    particlePropagator, particleRenderer, finalRenderer,
                    spriteRenderer, previousParticleTexture,
                    currentParticleTexture, velocityImage,
                    finalVelocityImage, colorMap, dtMin, previousFramebuffer,
                    currentFramebuffer, prop, bufTag, nextTexture,
                    nextBuffer, liveTextures, liveBuffers, ctl, destructed >>

\* start()
start ==
    /\ IF ~isInitialised
       THEN Done("start", TRUE) /\ UNCHANGED isRendering
       ELSE Done("start", FALSE) /\ isRendering' = TRUE
    /\ UNCHANGED << hasSpriteUrl, width, height, numParticles,
                    maxDisplacement, speedFactor, textureRenderer,
                    particlePropagator, particleRenderer, finalRenderer,
                    spriteRenderer, previousParticleTexture,
                    currentParticleTexture, velocityImage,
                    finalVelocityImage, colorMap, dtMin, previousFramebuffer,
                    currentFramebuffer, prop, bufTag, nextTexture,
                    nextBuffer, liveTextures, liveBuffers, ctl, destructed >>

\* stop()
stop ==
    /\ isRendering' = FALSE
    /\ Done("stop", FALSE)
    /\ UNCHANGED << hasSpriteUrl, width, height, numParticles,
                    maxDisplacement, speedFactor, textureRenderer,
                    particlePropagator, particleRenderer, finalRenderer,
                    spriteRenderer, previousParticleTexture,
                    currentParticleTexture, velocityImage,
                    finalVelocityImage, colorMap, dtMin, previousFramebuffer,
                    currentFramebuffer, prop, bufTag, nextTexture,
                    nextBuffer, liveTextures, liveBuffers, ctl, destructed >>

\* what destruct() does: it deletes the propagator's buffers and the two
\* trail textures; no field of the visualiser is cleared
destructFields ==
    /\ destructed' = TRUE
    /\ liveTextures' = liveTextures
                         \ {previousParticleTexture, currentParticleTexture}
    /\ IF particlePropagator
       THEN /\ liveBuffers' = liveBuffers
                                \ {prop.inputBuffers, prop.outputBuffers}
            /\ bufTag' = [x \in 1 .. MaxBuffers |->
                            IF x \in {prop.inputBuffers, prop.outputBuffers}
                            THEN TagDeleted ELSE bufTag[x]]
       ELSE UNCHANGED << liveBuffers, bufTag >>

\* destruct()
destruct ==
    /\ ~destructed
    /\ destructFields
    /\ Done("destruct", FALSE)
    /\ UNCHANGED << hasSpriteUrl, isRendering, width, height, numParticles,
                    maxDisplacement, speedFactor, textureRenderer,
                    particlePropagator, particleRenderer, finalRenderer,
                    spriteRenderer, previousParticleTexture,
                    currentParticleTexture, velocityImage,
                    finalVelocityImage, colorMap, dtMin, previousFramebuffer,
                    currentFramebuffer, prop, nextTexture, nextBuffer, ctl >>

\* setDimensions(w, h): new trail textures are created but not attached to
\* the texture renderer's framebuffers
setDimensions(w, h) ==
    /\ IF ~particlePropagator \/ ~particleRenderer
       THEN Done("setDimensions", TRUE)
            /\ UNCHANGED << width, height, previousParticleTexture,
                            currentParticleTexture, liveTextures,
                            nextTexture, dtMin >>
       ELSE IF width = w /\ height = h
       THEN Done("setDimensions", FALSE)
            /\ UNCHANGED << width, height, previousParticleTexture,
                            currentParticleTexture, liveTextures,
                            nextTexture, dtMin >>
       ELSE /\ nextTexture + 1 <= MaxTextures
            /\ width' = w
            /\ height' = h
            /\ previousParticleTexture' = nextTexture
            /\ currentParticleTexture' = nextTexture + 1
            /\ liveTextures' = liveTextures
                                  \cup {nextTexture, nextTexture + 1}
            /\ nextTexture' = nextTexture + 2
            /\ dtMin' = IF velocityImage # 0
                        THEN computeMinimumTimeStep(velocityImage, w, h,
                                 maxDisplacement, speedFactor)
                        ELSE dtMin
            /\ Done("setDimensions", FALSE)
    /\ UNCHANGED << hasSpriteUrl, isRendering, numParticles, maxDisplacement,
                    speedFactor, textureRenderer, particlePropagator,
                    particleRenderer, finalRenderer, spriteRenderer,
                    velocityImage, finalVelocityImage, colorMap,
                    previousFramebuffer, currentFramebuffer, prop, bufTag,
                    liveBuffers, nextBuffer, ctl, destructed >>

\* setNumParticles(n) without the call of spriteRenderer.setNumParticles
\* (lines 271-277)
setNumParticlesNoSprite(n) ==
    /\ IF ~particlePropagator \/ ~particleRenderer
       THEN Done("setNumParticles", TRUE)
            /\ UNCHANGED << numParticles, previousParticleTexture,
                            currentParticleTexture, liveTextures,
                            previousFramebuffer, currentFramebuffer, prop,
                            bufTag, liveBuffers, nextTexture, nextBuffer,
                            particleData >>
       ELSE IF numParticles = n
       THEN Done("setNumParticles", FALSE)
            /\ UNCHANGED << numParticles, previousParticleTexture,
                            currentParticleTexture, liveTextures,
                            previousFramebuffer, currentFramebuffer, prop,
                            bufTag, liveBuffers, nextTexture, nextBuffer,
                            particleData >>
       ELSE /\ nextBuffer + 1 <= MaxBuffers
            /\ resetParticleTexture(textureRenderer)
            /\ numParticles' = n
            /\ prop' = PropSetNumParticles(prop, n, numParticlesAllocate(n),
                                           nextBuffer, nextBuffer + 1)
            /\ bufTag' = TagsAfterReset(prop, nextBuffer, nextBuffer + 1)
            /\ liveBuffers' = (liveBuffers
                                 \ {prop.inputBuffers, prop.outputBuffers})
                               \cup {nextBuffer, nextBuffer + 1}
            /\ nextBuffer' = nextBuffer + 2
            /\ particleData' =
                  LET r == ParticleRendererData(n,
                               widthParticleDataTexture(n),
                               heightParticleDataTexture(n))
                  IN  [particle |-> r,
                       sprite   |-> particleData.sprite,
                       capacity |-> CapacityAfterReset(nextBuffer,
                                        nextBuffer + 1,
                                        numParticlesAllocate(n))]
            /\ Done("setNumParticles", FALSE)
    /\ UNCHANGED << hasSpriteUrl, isRendering, width, height,
                    maxDisplacement, speedFactor, textureRenderer,
                    particlePropagator, particleRenderer, finalRenderer,
                    spriteRenderer, velocityImage, finalVelocityImage,
                    colorMap, dtMin, ctlButData, destructed >>

\* setNumParticles(n)
setNumParticles(n) ==
    /\ IF ~particlePropagator \/ ~particleRenderer
       THEN Done("setNumParticles", TRUE)
            /\ UNCHANGED << numParticles, previousParticleTexture,
                            currentParticleTexture, liveTextures,
                            previousFramebuffer, currentFramebuffer, prop,
                            bufTag, liveBuffers, nextTexture, nextBuffer,
                            particleData >>
       ELSE IF numParticles = n
       THEN Done("setNumParticles", FALSE)
            /\ UNCHANGED << numParticles, previousParticleTexture,
                            currentParticleTexture, liveTextures,
                            previousFramebuffer, currentFramebuffer, prop,
                            bufTag, liveBuffers, nextTexture, nextBuffer,
                            particleData >>
       ELSE /\ nextBuffer + 1 <= MaxBuffers
            /\ resetParticleTexture(textureRenderer)
            /\ numParticles' = n
            /\ prop' = PropSetNumParticles(prop, n, numParticlesAllocate(n),
                                           nextBuffer, nextBuffer + 1)
            /\ bufTag' = TagsAfterReset(prop, nextBuffer, nextBuffer + 1)
            /\ liveBuffers' = (liveBuffers
                                 \ {prop.inputBuffers, prop.outputBuffers})
                               \cup {nextBuffer, nextBuffer + 1}
            /\ nextBuffer' = nextBuffer + 2
            /\ particleData' =
                  LET r == ParticleRendererData(n,
                               widthParticleDataTexture(n),
                               heightParticleDataTexture(n))
                  IN  [particle |-> r,
                       sprite   |-> IF spriteRenderer THEN r
                                    ELSE particleData.sprite,
                       capacity |-> CapacityAfterReset(nextBuffer,
                                        nextBuffer + 1,
                                        numParticlesAllocate(n))]
            /\ Done("setNumParticles", FALSE)
    /\ UNCHANGED << hasSpriteUrl, isRendering, width, height,
                    maxDisplacement, speedFactor, textureRenderer,
                    particlePropagator, particleRenderer, finalRenderer,
                    spriteRenderer, velocityImage, finalVelocityImage,
                    colorMap, dtMin, ctlButData, destructed >>

\* setColorMap(c) without the setSpeedCurve call of line 293
setColorMapKeepCurve(c) ==
    /\ IF ~finalRenderer \/ ~particlePropagator
       THEN Done("setColorMap", TRUE) /\ UNCHANGED colorMap
       ELSE Done("setColorMap", FALSE) /\ colorMap' = c
    /\ UNCHANGED << hasSpriteUrl, isRendering, width, height, numParticles,
                    maxDisplacement, speedFactor, textureRenderer,
                    particlePropagator, particleRenderer, finalRenderer,
                    spriteRenderer, previousParticleTexture,
                    currentParticleTexture, velocityImage,
                    finalVelocityImage, dtMin, previousFramebuffer,
                    currentFramebuffer, prop, bufTag, nextTexture,
                    nextBuffer, liveTextures, liveBuffers, ctl, destructed >>

\* setColorMap(c)
setColorMap(c) ==
    /\ IF ~finalRenderer \/ ~particlePropagator
       THEN Done("setColorMap", TRUE) /\ UNCHANGED << colorMap, prop >>
       ELSE /\ Done("setColorMap", FALSE)
            /\ colorMap' = c
            /\ prop' = setSpeedCurve(prop,
                           computeSpeedCurve(c, speedFactor, speedExponent))
    /\ UNCHANGED << hasSpriteUrl, isRendering, width, height, numParticles,
                    maxDisplacement, speedFactor, textureRenderer,
                    particlePropagator, particleRenderer, finalRenderer,
                    spriteRenderer, previousParticleTexture,
                    currentParticleTexture, velocityImage,
                    finalVelocityImage, dtMin, previousFramebuffer,
                    currentFramebuffer, bufTag, nextTexture,
                    nextBuffer, liveTextures, liveBuffers, ctl, destructed >>

\* the name under which a setVelocityImage call is recorded
SetVelocityImageOp(doResetParticles) ==
    IF doResetParticles THEN "setVelocityImage(true)"
    ELSE "setVelocityImage(false)"

\* updateVelocityImage throws 'Cannot set velocity image for uninitialised
\* visualiser.'
setVelocityImageThrows == ~particlePropagator \/ ~finalRenderer

\* what setVelocityImage(i, doResetParticles) does to the fields of the
\* visualiser: resetParticleTexture runs before updateVelocityImage makes
\* its check
setVelocityImageFields(i, doResetParticles) ==
    /\ IF doResetParticles
       THEN resetParticleTexture(textureRenderer)
       ELSE UNCHANGED << previousParticleTexture, currentParticleTexture,
                         liveTextures, previousFramebuffer,
                         currentFramebuffer, nextTexture >>
    /\ IF setVelocityImageThrows
       THEN UNCHANGED << velocityImage, finalVelocityImage, prop, dtMin >>
       ELSE /\ velocityImage' = i
            /\ prop' = PropSetVelocityImage(prop, i)
            /\ finalVelocityImage' = i
            /\ dtMin' = computeMinimumTimeStep(i, width, height,
                                               maxDisplacement, speedFactor)

\* setVelocityImage(i, doResetParticles)
setVelocityImage(i, doResetParticles) ==
    /\ setVelocityImageFields(i, doResetParticles)
    /\ Done(SetVelocityImageOp(doResetParticles), setVelocityImageThrows)
    /\ UNCHANGED << hasSpriteUrl, isRendering, width, height, numParticles,
                    maxDisplacement, speedFactor, textureRenderer,
                    particlePropagator, particleRenderer, finalRenderer,
                    spriteRenderer, colorMap, bufTag, liveBuffers, nextBuffer,
                    ctl, destructed >>

\* updateOptions({maxDisplacement: md, speedFactor: sf, speedExponent: e}),
\* e being << >> for undefined
updateOptionsWith(md, sf, e) ==
    /\ IF colorMap = 0 \/ ~particlePropagator \/ ~particleRenderer
          \/ ~finalRenderer
       THEN Done("updateOptions", TRUE)
            /\ UNCHANGED << maxDisplacement, speedFactor, speedExponent,
                            dtMin, prop >>
       ELSE /\ maxDisplacement' = md
            /\ speedFactor' = sf
            /\ speedExponent' = e
            /\ dtMin' = IF velocityImage # 0
                        THEN computeMinimumTimeStep(velocityImage, width,
                                                    height, md, sf)
                        ELSE dtMin
            /\ prop' = setSpeedCurve(prop, computeSpeedCurve(colorMap, sf, e))
            /\ Done("updateOptions", FALSE)
    /\ UNCHANGED << hasSpriteUrl, isRendering, width, height, numParticles,
                    textureRenderer, particlePropagator, particleRenderer,
                    finalRenderer, spriteRenderer, previousParticleTexture,
                    currentParticleTexture, velocityImage,
                    finalVelocityImage, colorMap, previousFramebuffer,
                    currentFramebuffer, bufTag, nextTexture,
                    nextBuffer, liveTextures, liveBuffers, mode, pdata,
                    initPc, initCalls, initCompleted, layer, program,
                    particleData, destructed >>

\* updateOptions({maxDisplacement: md, speedFactor: sf})
updateOptions(md, sf) == updateOptionsWith(md, sf, speedExponent)

-----------------------------------------------------------------------------
\* renderFrame.

MAX_NUM_SUBSTEPS == 32

\* const needSubstepping = dt > this.dtMin
needSubstepping(dt) == ExtLt(dtMin, Fin(dt, 1))

\* const numSubSteps = needSubstepping
\*     ? Math.min(Math.floor(dt / this.dtMin), this.MAX_NUM_SUBSTEPS) : 1
numSubSteps(dt) ==
    IF needSubstepping(dt)
    THEN ExtMin(ExtFloor(ExtDiv(Fin(dt, 1), dtMin)), Fin(MAX_NUM_SUBSTEPS, 1))
    ELSE Fin(1, 1)

\* const dtSub = needSubstepping ? dt / numSubSteps : dt
dtSubOf(dt) ==
    IF needSubstepping(dt) THEN ExtDiv(Fin(dt, 1), numSubSteps(dt))
    ELSE Fin(dt, 1)

\* iterations of `for (let i = 0; i < numSubSteps; i++)`
LoopCount(n) == IF IsFin(n) /\ n.n > 0 THEN n.n \div n.d ELSE 0

Pass(op, src, dst) == [op |-> op, src |-> src, dst |-> dst]

\* the part of the visualiser a frame works on
FrameState ==
    [ prevTex |-> previousParticleTexture, curTex |-> currentParticleTexture,
      prevFb |-> previousFramebuffer, curFb |-> currentFramebuffer,
      p |-> prop, tags |-> bufTag, log |-> << >> ]

\* swapParticleTextures without textureRenderer.swapBuffers()
swapParticleTexturesOnly(st) ==
    [st EXCEPT !.prevTex = st.curTex, !.curTex = st.prevTex,
               !.log = Append(st.log, Pass("swap", 0, 0))]

\* swapParticleTextures
swapParticleTextures(st) ==
    [st EXCEPT !.prevTex = st.curTex, !.curTex = st.prevTex,
               !.prevFb = st.curFb, !.curFb = st.prevFb,
               !.log = Append(st.log, Pass("swap", 0, 0))]

\* one iteration of the substep loop (lines 365-392) when update() does not
\* throw: accumulate pass, propagator update, particle render, and the swap
\* between substeps
SubStep(st, i, n) ==
    LET p1  == PropUpdate(st.p)
        st1 == [st EXCEPT
                  !.p = p1,
                  !.tags = [st.tags EXCEPT ![p1.outputBuffers] =
                                TagComputed(p1.velocityImage)],
                  !.log = st.log \o
                     << Pass("accumulate", st.prevTex, st.curFb),
                        Pass("update", p1.inputBuffers, p1.outputBuffers),
                        Pass("render", PropBuffer(p1), st.curFb) >>]
    IN  IF i < n - 1 THEN swapParticleTextures(st1) ELSE st1

RECURSIVE SubSteps(_, _, _)
SubSteps(st, i, n) ==
    IF i >= n THEN st ELSE SubSteps(SubStep(st, i, n), i + 1, n)

\* lines 397-405: final composite, sprite overlay, closing swap
FrameEnd(st) ==
    LET st1 == [st EXCEPT !.log = Append(st.log,
                                         Pass("final", st.curTex, 0))]
        st2 == IF spriteRenderer
               THEN [st1 EXCEPT !.log = Append(st1.log,
                                    Pass("sprite", PropBuffer(st1.p), 0))]
               ELSE st1
    IN  swapParticleTextures(st2)

\* the frame's effect on the visualiser
StoreFrame(st) ==
    /\ previousParticleTexture' = st.prevTex
    /\ currentParticleTexture' = st.curTex
    /\ previousFramebuffer' = st.prevFb
    /\ currentFramebuffer' = st.curFb
    /\ prop' = st.p
    /\ bufTag' = st.tags
    /\ passes' = st.log

\* renderFrame(dt) of a Running visualiser
renderFrameRunning(dt) ==
    LET n     == numSubSteps(dt)
        loops == LoopCount(n)
        fr    == [dt |-> dt, n |-> n, dtSub |-> dtSubOf(dt),
                  loops |-> loops, running |-> TRUE, stepped |-> TRUE]
    IN
    IF \/ ~textureRenderer \/ ~particlePropagator \/ ~particleRenderer
       \/ ~finalRenderer
       \/ previousParticleTexture = 0 \/ currentParticleTexture = 0
    THEN \* 'Visualiser was not initialised ...'
         /\ lastOp' = "renderFrame" /\ threw' = TRUE /\ passes' = << >>
         /\ frame' = [NoFrame EXCEPT !.dt = dt, !.running = TRUE]
         /\ UNCHANGED << previousParticleTexture, currentParticleTexture,
                         previousFramebuffer, currentFramebuffer, prop,
                         bufTag >>
    ELSE IF loops >= 1 /\ UpdateThrows(prop)
    THEN \* the first update() throws after the first accumulate pass
         /\ lastOp' = "renderFrame" /\ threw' = TRUE
         /\ passes' = << Pass("accumulate", previousParticleTexture,
                              currentFramebuffer) >>
         /\ frame' = fr
         /\ UNCHANGED << previousParticleTexture, currentParticleTexture,
                         previousFramebuffer, currentFramebuffer, prop,
                         bufTag >>
    ELSE IF finalVelocityImage = 0
    THEN \* FinalRenderer.bindUniforms throws
         /\ lastOp' = "renderFrame" /\ threw' = TRUE
         /\ StoreFrame(SubSteps(FrameState, 0, loops))
         /\ frame' = fr
    ELSE /\ lastOp' = "renderFrame" /\ threw' = FALSE
         /\ StoreFrame(FrameEnd(SubSteps(FrameState, 0, loops)))
         /\ frame' = fr

\* renderFrame(dt) without the `if (!this.isRendering) return` of line 342
renderFrameUnguarded(dt) ==
    /\ renderFrameRunning(dt)
    /\ UNCHANGED << hasSpriteUrl, isRendering, width, height, numParticles,
                    maxDisplacement, speedFactor, textureRenderer,
                    particlePropagator, particleRenderer, finalRenderer,
                    spriteRenderer, velocityImage, finalVelocityImage,
                    colorMap, dtMin, nextTexture, nextBuffer, liveTextures,
                    liveBuffers, ctl, destructed >>

\* renderFrame(dt)
renderFrame(dt) ==
    /\ IF ~isRendering
       THEN /\ Done("renderFrame", FALSE)
            /\ UNCHANGED << previousParticleTexture, currentParticleTexture,
                            previousFramebuffer, currentFramebuffer, prop,
                            bufTag >>
       ELSE renderFrameRunning(dt)
    /\ UNCHANGED << hasSpriteUrl, isRendering, width, height, numParticles,
                    maxDisplacement, speedFactor, textureRenderer,
                    particlePropagator, particleRenderer, finalRenderer,
                    spriteRenderer, velocityImage, finalVelocityImage,
                    colorMap, dtMin, nextTexture, nextBuffer, liveTextures,
                    liveBuffers, ctl, destructed >>

-----------------------------------------------------------------------------
\* The visualiser driven through its public API.

\* Inputs of the API runs: frame times (time units), canvas sizes
\* << width, height >> (pixels), particle counts, velocity images (indices
\* into Images), colormaps, options.maxDisplacement and options.speedFactor.
DtSet == {1}
Dimensions == { <<1, 1>>, <<1, 2>> }
ParticleCounts == {1, 2}
VisImages == {1}
ColorMaps == {1}
MaxDisplacements == {1}
SpeedFactors == {1}

Next ==
    \/ \E c \in ColorMaps : initialise(c)
    \/ \E ok \in BOOLEAN : initialiseLinked(ok)
    \/ \E ok \in BOOLEAN : initialiseSprite(ok)
    \/ start
    \/ stop
    \/ destruct
    \/ \E d \in Dimensions : setDimensions(d[1], d[2])
    \/ \E n \in ParticleCounts : setNumParticles(n)
    \/ \E c \in ColorMaps : setColorMap(c)
    \/ \E i \in VisImages, r \in BOOLEAN : setVelocityImage(i, r)
    \/ \E md \in MaxDisplacements, sf \in SpeedFactors : updateOptions(md, sf)
    \/ \E dt \in DtSet : renderFrame(dt)

Spec == Init /\ [][Next]_vars

-----------------------------------------------------------------------------
\* Sub-stepping: the visualiser driven through the calls that set the minimum
\* time step (setVelocityImage, setDimensions, updateOptions) and rendered
\* with short and long frame times.

\* frame times: below, at and above the minimum time steps that occur, and
\* long enough for the cap to apply
StepDts == {-1, 1, 5, 200}
StepImages == {1, 2}
StepDimensions == { <<1, 1>>, <<1, 2>> }
StepDisplacements == {0, 1, 3}
StepSpeedFactors == {1, 2}

\* a visualiser without a sprite
InitStep == Init /\ ~hasSpriteUrl

NextStep ==
    \/ \E c \in ColorMaps : initialise(c)
    \/ \E ok \in BOOLEAN : initialiseLinked(ok)
    \/ start
    \/ \E d \in StepDimensions : setDimensions(d[1], d[2])
    \/ \E i \in StepImages : setVelocityImage(i, FALSE)
    \/ \E md \in StepDisplacements, sf \in StepSpeedFactors :
          updateOptions(md, sf)
    \/ \E dt \in StepDts : renderFrame(dt)

SpecStep == InitStep /\ [][NextStep]_vars

\* number of propagator updates the last renderFrame issued
NumUpdates == Cardinality({ k \in DOMAIN passes : passes[k].op = "update" })

\* C5: a Running renderFrame(dt) that gets past its precondition check
\* computes a substep count n with 1 <= n <= 32 and n * dtSub = dt, for
\* every dt and every dtMin the setters can produce, and (unless a pass
\* throws) advances the propagator exactly n times.
C5_SubstepCount ==
    (lastOp = "renderFrame" /\ frame.running /\ frame.stepped) =>
        /\ IsFin(frame.n) /\ frame.n.d = 1
        /\ 1 <= frame.n.n /\ frame.n.n <= MAX_NUM_SUBSTEPS
        /\ ExtEq(ExtMul(frame.n, frame.dtSub), Fin(frame.dt, 1))
        /\ frame.loops = frame.n.n
        /\ ~threw => NumUpdates = frame.n.n

-----------------------------------------------------------------------------
\* particle.vert.glsl: the per-particle update.
\*
\* Positions are integer points in clip units (clip space is [-1, 1] on both
\* axes), velocities are integers in clip units per time unit, ages and time
\* steps are integer ticks.  The speed curve is the default one (exponent 1,
\* factor 1) and the canvas is square, so that the clip-space velocity is
\* the decoded velocity.  The rasters hold no data texel whose decoded
\* velocity is (0, 0): normalize() is undefined for it.

\* the velocity raster of an image: 2 x 2 texels << r, g >> with r, g the
\* raw channels (0 or 1), the first row being the first row of image data
Raster(img) ==
    CASE img.field = "data"   -> << << <<1, 0>>, <<0, 0>> >>,
                                    << <<0, 1>>, <<1, 0>> >> >>
      [] img.field = "nodata" -> << << <<1, 1>>, <<1, 1>> >>,
                                    << <<1, 1>>, <<1, 1>> >> >>
      [] img.field = "mixed"  -> << << <<1, 0>>, <<1, 1>> >>,
                                    << <<0, 1>>, <<1, 1>> >> >>

\* is_missing_velocity that never reports the sentinel
NeverMissing(raw) == FALSE

\* is_missing_velocity: raw.r == 1.0 && raw.g == 1.0
is_missing_velocity(raw) == raw[1] = 1 /\ raw[2] = 1

\* texel index of twice a texture coordinate in a 2-texel axis: NEAREST
\* filtering, CLAMP_TO_EDGE wrapping
TexelIndex(twiceCoord) == IF twiceCoord < 1 THEN 0 ELSE 1

\* texture(u_velocity_texture, vec2(0.5 + 0.5 * x, 0.5 - 0.5 * y))
SampleVelocity(img, x, y) ==
    Raster(img)[TexelIndex(1 - y) + 1][TexelIndex(1 + x) + 1]

\* get_clip_space_velocity(pos)
get_clip_space_velocity(img, x, y) ==
    LET raw == SampleVelocity(img, x, y)
    IN  IF is_missing_velocity(raw) THEN << 0, 0 >>
        ELSE << raw[1] * img.uScale + img.uOffset,
                raw[2] * img.vScale + img.vOffset >>

\* a particle: position, stored velocity (seeded: the velocity is the
\* (1e-6, 1e-6) of generateInitialParticleData, not (vx, vy)), age, and the
\* branch of main that produced it
Particle(x, y, vx, vy, seeded, age, br) ==
    [x |-> x, y |-> y, vx |-> vx, vy |-> vy, seeded |-> seeded, age |-> age,
     br |-> br]

\* the zero-filled slot of a buffer created by bufferData
ZeroParticle == Particle(0, 0, 0, 0, FALSE, 0, "zero")

\* the bounds test without its comparisons
NeverOutOfBounds(p) == FALSE

\* pos.x < -1.0 || pos.x > 1.0 || pos.y < -1.0 || pos.y > 1.0
OutOfBounds(p) == p.x < -1 \/ p.x > 1 \/ p.y < -1 \/ p.y > 1

\* velocity.x == 0.0 && velocity.y == 0.0
ZeroVelocity(p) == ~p.seeded /\ p.vx = 0 /\ p.vy = 0

\* gold_noise(...) * 2.0 - 1.0 and Math.random() * 2 - 1: a coordinate in
\* [-1, 1)
RandomCoords == {-1, 0}

\* gold_noise(...) * u_max_age and Math.random() * maxAge: an age in
\* [0, maxAge)
RandomAges(maxAge) == IF maxAge >= 1 THEN 0 .. (maxAge - 1) ELSE {0}

\* v_new_particle_data / v_new_particle_age for a new position and age
NewParticle(img, x, y, age, br) ==
    LET v == get_clip_space_velocity(img, x, y)
    IN  Particle(x, y, v[1], v[2], FALSE, age, br)

\* pos + velocity * u_dt; the seeded velocity moves a particle by less than
\* the grid resolves
Advanced(p, dt) ==
    IF p.seeded THEN << p.x, p.y >>
    ELSE << p.x + p.vx * dt, p.y + p.vy * dt >>

\* main() of the age version without its first branch (too old)
MainAgeNoEliminate(p, img, dt, maxAge) ==
    IF ZeroVelocity(p)
    THEN UNION { { NewParticle(img, x, y, a, "NoField") :
                     x \in RandomCoords, y \in RandomCoords } :
                 a \in RandomAges(maxAge) }
    ELSE IF OutOfBounds(p)
    THEN { NewParticle(img, x, y, 0, "OutOfBounds") :
             x \in RandomCoords, y \in RandomCoords }
    ELSE { NewParticle(img, Advanced(p, dt)[1], Advanced(p, dt)[2],
                       p.age + dt, "Advance") }

\* main() of the age version: the particles it can write for input p
MainAge(p, img, dt, maxAge) ==
    IF p.age > maxAge
    THEN { NewParticle(img, x, y, 0, "Eliminate") :
             x \in RandomCoords, y \in RandomCoords }
    ELSE IF ZeroVelocity(p)
    THEN UNION { { NewParticle(img, x, y, a, "NoField") :
                     x \in RandomCoords, y \in RandomCoords } :
                 a \in RandomAges(maxAge) }
    ELSE IF OutOfBounds(p)
    THEN { NewParticle(img, x, y, 0, "OutOfBounds") :
             x \in RandomCoords, y \in RandomCoords }
    ELSE { NewParticle(img, Advanced(p, dt)[1], Advanced(p, dt)[2],
                       p.age + dt, "Advance") }

\* main() of the index-elimination version, eliminate telling whether
\* gl_VertexID lies in [u_index_eliminate_start, u_index_eliminate_end)
MainIndex(p, img, dt, eliminate) ==
    IF eliminate
    THEN { NewParticle(img, x, y, 0, "Eliminate") :
             x \in RandomCoords, y \in RandomCoords }
    ELSE IF OutOfBounds(p)
    THEN { NewParticle(img, x, y, 0, "OutOfBounds") :
             x \in RandomCoords, y \in RandomCoords }
    ELSE { NewParticle(img, Advanced(p, dt)[1], Advanced(p, dt)[2],
                       0, "Advance") }

-----------------------------------------------------------------------------
\* The ParticlePropagator driven through its own methods, with the particles
\* its buffers hold.

\* the fields of the visualiser, which a call on the propagator leaves alone
visFieldsButData ==
             << hasSpriteUrl, isRendering, width, height, numParticles,
                maxDisplacement, speedFactor, textureRenderer,
                particlePropagator, particleRenderer, finalRenderer,
                spriteRenderer, previousParticleTexture,
                currentParticleTexture, velocityImage, finalVelocityImage,
                colorMap, dtMin, previousFramebuffer, currentFramebuffer,
                nextTexture, liveTextures, initPc, initCalls, initCompleted,
                destructed, mode, layer, program, speedExponent >>

visFields == << visFieldsButData, particleData >>

\* largest maxAge passed to the constructor or setMaxAge (ticks)
MaxAgeBound == 2
\* largest time step passed to update (ticks)
MaxDtBound == 2
\* pdata.steps stops counting here
MaxStepCount == 3

\* createParticles (index version): random positions, velocity 0;
\* generateInitialParticleData / generateInitialParticleAges (age version):
\* random positions, velocity 1e-6, random ages
SeedParticles(maxAge) ==
    IF mode = "index"
    THEN { Particle(x, y, 0, 0, FALSE, 0, "seed") :
             x \in RandomCoords, y \in RandomCoords }
    ELSE UNION { { Particle(x, y, 0, 0, TRUE, a, "seed") :
                     x \in RandomCoords, y \in RandomCoords } :
                 a \in RandomAges(maxAge) }

\* the contents a seeded buffer of n particles can have
Seeds(n, maxAge) == [1 .. n -> SeedParticles(maxAge)]

\* resetBuffers on the particle level: q is the propagator with the fields
\* the caller has set; the old buffers are deleted, two are created, the
\* first is seeded
ResetParticleBuffers(q) ==
    /\ nextBuffer + 1 <= MaxBuffers
    /\ \E seed \in Seeds(q.numParticles, q.maxAge) :
          pdata' = [parts |->
                      [x \in 1 .. MaxBuffers |->
                         IF x = nextBuffer THEN seed
                         ELSE IF x = nextBuffer + 1
                         THEN [k \in 1 .. q.numParticles |-> ZeroParticle]
                         ELSE IF x \in {prop.inputBuffers, prop.outputBuffers}
                         THEN << >>
                         ELSE pdata.parts[x]],
                    steps |-> 0, dt |-> 0]
    /\ bufTag' = TagsAfterReset(prop, nextBuffer, nextBuffer + 1)
    /\ liveBuffers' = (liveBuffers \ {prop.inputBuffers, prop.outputBuffers})
                         \cup {nextBuffer, nextBuffer + 1}
    /\ nextBuffer' = nextBuffer + 2
    /\ particleData' =
          [particleData EXCEPT !.capacity =
              CapacityAfterReset(nextBuffer, nextBuffer + 1,
                                 q.numParticlesAllocate)]

\* ParticlePropagator.initialise()
propInitialise ==
    /\ prop.inputBuffers = 0 /\ prop.outputBuffers = 0
    /\ prop' = PropInitialise(prop, nextBuffer, nextBuffer + 1)
    /\ ResetParticleBuffers(prop)
    /\ Done("initialise", FALSE)
    /\ UNCHANGED visFieldsButData

\* ParticlePropagator.setVelocityImage(image)
propSetVelocityImage(i) ==
    /\ prop' = PropSetVelocityImage(prop, i)
    /\ pdata' = [pdata EXCEPT !.steps = 0]
    /\ Done("setVelocityImage", FALSE)
    /\ UNCHANGED << visFields, bufTag, nextBuffer, liveBuffers >>

\* ParticlePropagator.setNumParticles(n, numParticlesAllocate)
propSetNumParticles(n) ==
    /\ prop.inputBuffers # 0
    /\ prop' = PropSetNumParticles(prop, n, numParticlesAllocate(n),
                                   nextBuffer, nextBuffer + 1)
    /\ ResetParticleBuffers([prop EXCEPT !.numParticles = n,
                              !.numParticlesAllocate = numParticlesAllocate(n)])
    /\ Done("setNumParticles", FALSE)
    /\ UNCHANGED visFieldsButData

\* ParticlePropagator.setMaxAge(maxAge) (age version)
propSetMaxAge(age) ==
    /\ mode = "age"
    /\ prop.inputBuffers # 0
    /\ prop' = PropSetMaxAge(prop, age, nextBuffer, nextBuffer + 1)
    /\ ResetParticleBuffers([prop EXCEPT !.maxAge = age])
    /\ Done("setMaxAge", FALSE)
    /\ UNCHANGED visFieldsButData

\* ParticlePropagator.resetAges() (age version): new random ages in the
\* output buffer, if there is one
propResetAges ==
    /\ mode = "age"
    /\ IF prop.outputBuffers = 0
       THEN UNCHANGED pdata
       ELSE \E ages \in [1 .. prop.numParticles -> RandomAges(prop.maxAge)] :
              pdata' = [pdata EXCEPT !.parts[prop.outputBuffers] =
                          [k \in 1 .. prop.numParticles |->
                             [pdata.parts[prop.outputBuffers][k]
                                EXCEPT !.age = ages[k]]]]
    /\ Done("resetAges", FALSE)
    /\ UNCHANGED << visFields, prop, bufTag, nextBuffer, liveBuffers >>

\* propagator.numEliminatePerSecond = r (index version)
propSetNumEliminatePerSecond(r) ==
    /\ mode = "index"
    /\ prop' = [prop EXCEPT !.numEliminatePerSecond = r]
    /\ Done("setNumEliminatePerSecond", FALSE)
    /\ UNCHANGED << visFields, pdata, bufTag, nextBuffer, liveBuffers >>

\* the particles main() can write for slot k of the input buffer; first is
\* the index drawn by randomParticleIndex (index version)
MainOf(p, k, img, dt, first) ==
    IF mode = "age" THEN MainAge(p, img, dt, prop.maxAge)
    ELSE MainIndex(p, img, dt,
                   first <= k - 1
                   /\ k - 1 < first + prop.numEliminatePerSecond * dt)

\* the contents the output buffer can have after the transform feedback
\* pass over input buffer contents inp
UpdatedParticles(inp, img, dt, first) ==
    LET n == Len(inp)
        all == UNION { MainOf(inp[k], k, img, dt, first) : k \in 1 .. n }
    IN  { out \in [1 .. n -> all] :
            \A k \in 1 .. n : out[k] \in MainOf(inp[k], k, img, dt, first) }

\* ParticlePropagator.update(dt).  The contents of the input buffer are
\* dropped from pdata once they are read: that buffer is overwritten by the
\* next update or deleted by the next reset before it can be an input again.
propUpdate(dt) ==
    /\ IF UpdateThrows(prop)
       THEN /\ Done("update", TRUE)
            /\ UNCHANGED << prop, pdata, bufTag >>
       ELSE LET q == PropUpdate(prop)
            IN  /\ prop' = q
                /\ \E first \in 0 .. (prop.numParticles - 1) :
                    \E out \in UpdatedParticles(pdata.parts[q.inputBuffers],
                                 Images[prop.velocityImage], dt, first) :
                       pdata' = [parts |-> [pdata.parts EXCEPT
                                              ![q.outputBuffers] = out,
                                              ![q.inputBuffers] = << >>],
                                 steps |-> IF pdata.steps < MaxStepCount
                                           THEN pdata.steps + 1
                                           ELSE pdata.steps,
                                 dt |-> dt]
                /\ bufTag' = [bufTag EXCEPT ![q.outputBuffers] =
                                 TagComputed(prop.velocityImage)]
                /\ Done("update", FALSE)
    /\ UNCHANGED << visFields, nextBuffer, liveBuffers >>

\* inputs of the propagator runs
PropImages == {1, 3}
PropCounts == {1}
PropAges == 1 .. MaxAgeBound
PropDts == 1 .. MaxDtBound
PropEliminateRates == {0, 1}

\* the propagator as `new ParticlePropagator(...)` leaves it, in either
\* version of the class
InitProp ==
    /\ hasSpriteUrl = FALSE
    /\ mode \in {"index", "age"}
    /\ \E age \in PropAges : prop = NewPropagator(1, 1, age)
    /\ InitFields

NextProp ==
    \/ propInitialise
    \/ \E i \in PropImages : propSetVelocityImage(i)
    \/ \E n \in PropCounts : propSetNumParticles(n)
    \/ \E age \in PropAges : propSetMaxAge(age)
    \/ propResetAges
    \/ \E r \in PropEliminateRates : propSetNumEliminatePerSecond(r)
    \/ \E dt \in PropDts : propUpdate(dt)

SpecProp == InitProp /\ [][NextProp]_vars

-----------------------------------------------------------------------------
\* Propagator claims, checked under SpecProp.

\* the particles in the buffer the getter returns
Output == pdata.parts[PropBuffer(prop)]

\* a position in [-1, 1] x [-1, 1]
InClipSpace(p) == -1 <= p.x /\ p.x <= 1 /\ -1 <= p.y /\ p.y <= 1

\* a step that is a call of update: one that throws changes nothing else,
\* one that does not throw swaps the roles
UpdateStep == lastOp' = "update" /\ (threw' \/ prop' # prop)

\* C6: an update throws only when no velocity image is set (or the
\* propagator was never initialised) and then leaves the roles unchanged;
\* an update that does not throw reads the buffer written last (seeded by
\* the reset just before it, or produced by the previous update), writes
\* the other one, and afterwards the getter returns the buffer it wrote,
\* holding numParticles particles.  Both versions of the class.
C6_BufferParity ==
    [][ /\ (UpdateStep /\ ~threw') =>
              /\ prop'.readAt # 0
              /\ prop'.readAt = prop.written
              /\ bufTag[prop'.readAt].kind \in {"seeded", "computed"}
              /\ lastOp \in {"initialise", "setNumParticles", "setMaxAge"}
                    => bufTag[prop'.readAt] = TagSeeded
              /\ prop'.written # prop'.readAt
              /\ PropBuffer(prop') = prop'.written
              /\ Len(pdata'.parts[PropBuffer(prop')]) = prop.numParticles
        /\ (UpdateStep /\ threw') =>
              /\ prop.inputBuffers = 0 \/ ~prop.velocityTexture
              /\ prop'.inputBuffers = prop.inputBuffers
              /\ prop'.outputBuffers = prop.outputBuffers ]_vars

\* C6 happens: the first update after a setNumParticles or setMaxAge read
\* the buffer that reset seeded
C6_Witness ==
    /\ lastOp = "update" /\ ~threw
    /\ prop.readAt >= 3 /\ bufTag[prop.readAt] = TagSeeded

C8_AgeBound ==
    (mode = "age" /\ lastOp = "update" /\ ~threw) =>
        \A k \in 1 .. Len(Output) :
            0 <= Output[k].age /\ Output[k].age <= prop.maxAge + pdata.dt

\* C8 happens: a particle of age maxAge was advanced to maxAge + dt
C8_Witness ==
    /\ mode = "age" /\ lastOp = "update" /\ ~threw
    /\ \E k \in 1 .. Len(Output) : Output[k].age = prop.maxAge + pdata.dt

\* C9: in the age version under an all-no-data field, after the first
\* update every particle has velocity (0, 0), after the second every age is
\* in [0, maxAge), and from the third on every particle comes out of the
\* NoField branch (updates counted from the last reset or image change).
C9_NoDataField ==
    (/\ mode = "age" /\ lastOp = "update" /\ ~threw
     /\ Images[prop.velocityImage].field = "nodata") =>
        \A k \in 1 .. Len(Output) :
            /\ pdata.steps >= 1 => ZeroVelocity(Output[k])
            /\ pdata.steps >= 2 =>
                  0 <= Output[k].age /\ Output[k].age < prop.maxAge
            /\ pdata.steps >= 3 => Output[k].br = "NoField"

\* C9 happens: a third update under the no-data field gave a particle an
\* age other than 0
C9_Witness ==
    /\ mode = "age" /\ lastOp = "update" /\ ~threw
    /\ Images[prop.velocityImage].field = "nodata"
    /\ pdata.steps >= 3
    /\ \E k \in 1 .. Len(Output) :
          Output[k].br = "NoField" /\ Output[k].age > 0

-----------------------------------------------------------------------------
\* Lifecycle claims, checked under Spec.

\* C1: while the visualiser is not Running, renderFrame(dt) is a no-op for
\* every dt: it issues no pass, swaps no trail or particle buffers (no field
\* of the visualiser, its renderers or the context changes) and does not
\* throw, also on an uninitialised visualiser.
C1_RenderFrameNoOpUnlessRunning ==
    [][ (lastOp' = "renderFrame" /\ ~isRendering)
            => (passes' = << >> /\ ~threw' /\ UNCHANGED visState) ]_vars

\* C1 happens: a renderFrame on an initialised visualiser with a velocity
\* image that was started and stopped again
C1_Witness ==
    /\ lastOp = "renderFrame" /\ ~frame.running
    /\ isInitialised /\ finalVelocityImage # 0 /\ ~UpdateThrows(prop)

\* the methods that require an initialised visualiser
Setters == { "setDimensions", "setNumParticles", "setColorMap",
             "setVelocityImage(true)", "setVelocityImage(false)",
             "updateOptions" }

C3_ThrowsBeforeInitialiseCompleted ==
    (lastOp \in Setters \cup {"start"} /\ ~initCompleted) => threw

\* C4: after destruct(), start, renderFrame and the setters throw, and the
\* visualiser is never Running.
C4_ThrowsAfterDestruct ==
    destructed =>
        /\ ~isRendering
        /\ lastOp \in Setters \cup {"start", "renderFrame"} => threw

-----------------------------------------------------------------------------
\* Frame contents.

\* options.maxAge as WMSStreamlineLayer hands it to the visualiser when the
\* layer options leave it out (maxAge: options.maxAge ?? 1.0)
DefaultMaxAge == 1

\* C11: in a Running renderFrame(dt) the particle ages are re-synchronised
\* (resetAges) before the first substep advances the particles when dt
\* exceeds 10% of maxAge, and are not reset when dt is at most 10% of maxAge.
C11_AgesResynchronised ==
    (lastOp = "renderFrame" /\ frame.running /\ ~threw) =>
        IF 10 * frame.dt > DefaultMaxAge
        THEN \E k \in DOMAIN passes :
                /\ passes[k].op = "resetAges"
                /\ \A j \in 1 .. k - 1 : passes[j].op # "update"
        ELSE \A k \in DOMAIN passes : passes[k].op # "resetAges"

-----------------------------------------------------------------------------
\* Initialising twice: the visualiser driven through initialise, a second
\* initialise after the first has completed, setVelocityImage, start, stop
\* and renderFrame.

ReinitColorMaps == {1, 2}

NextReinit ==
    \/ \E c \in ReinitColorMaps : initialise(c)
    \/ \E c \in ReinitColorMaps : initialiseAgain(c)
    \/ \E ok \in BOOLEAN : initialiseLinked(ok)
    \/ \E ok \in BOOLEAN : initialiseSprite(ok)
    \/ start
    \/ stop
    \/ \E i \in VisImages : setVelocityImage(i, FALSE)
    \/ \E dt \in DtSet : renderFrame(dt)

SpecReinit == Init /\ [][NextReinit]_vars

\* a step in which a call of initialise made on an already initialised
\* visualiser resumes without rejecting
SecondInitialiseStep ==
    /\ initCompleted
    /\ initPc # "idle"
    /\ lastOp' = "initialise" /\ ~threw'
    /\ initPc' # initPc

\* C12: initialise(colormap) called on an already initialised visualiser is
\* a no-op: the renderers, the particle buffers, the trail textures, the
\* velocity field held by the propagator and by the compositor and the
\* Running flag are unchanged (so that a following renderFrame behaves as
\* if the call had not been made).
C12_SecondInitialiseIsNoOp ==
    [][ SecondInitialiseStep =>
            /\ prop'.inputBuffers = prop.inputBuffers
            /\ prop'.outputBuffers = prop.outputBuffers
            /\ bufTag' = bufTag
            /\ previousParticleTexture' = previousParticleTexture
            /\ currentParticleTexture' = currentParticleTexture
            /\ previousFramebuffer' = previousFramebuffer
            /\ currentFramebuffer' = currentFramebuffer
            /\ prop'.velocityImage = prop.velocityImage
            /\ prop'.velocityTexture = prop.velocityTexture
            /\ finalVelocityImage' = finalVelocityImage
            /\ isRendering' = isRendering
            /\ liveBuffers' = liveBuffers /\ liveTextures' = liveTextures
      ]_vars

\* number of passes of one kind the last renderFrame issued
NumPasses(op) == Cardinality({ k \in DOMAIN passes : passes[k].op = op })

\* C13: every renderFrame(dt) of a Running visualiser that begins (gets past
\* its precondition check) issues all of its passes: n accumulate passes, n
\* propagator updates, n particle renders, the final composite and the
\* closing trail swap; it never stops part-way, also when the visualiser is
\* Running before any velocity image has been set.
C13_FrameIssuesAllPasses ==
    (lastOp = "renderFrame" /\ frame.running /\ frame.stepped) =>
        /\ ~threw
        /\ NumPasses("accumulate") = frame.loops
        /\ NumPasses("update") = frame.loops
        /\ NumPasses("render") = frame.loops
        /\ NumPasses("final") = 1
        /\ Len(passes) >= 1 /\ passes[Len(passes)].op = "swap"

-----------------------------------------------------------------------------
\* WMSStreamlineLayer: the velocity field pipeline (visualiser.ts:764-793,
\* 1043-1128).  The canvas keeps its size, so the setDimensions call at the
\* start of updateVelocityField either throws or changes nothing.

\* fields of the visualiser no handler of the layer changes
layerFixed == << hasSpriteUrl, width, height, numParticles, maxDisplacement,
                 speedFactor, textureRenderer, particlePropagator,
                 particleRenderer, finalRenderer, spriteRenderer, colorMap,
                 mode, pdata, nextBuffer, initPc, initCalls, initCompleted,
                 program, speedExponent, particleData >>

\* fields setVelocityImage may change
imageFields == << previousParticleTexture, currentParticleTexture,
                  previousFramebuffer, currentFramebuffer, nextTexture,
                  liveTextures, velocityImage, finalVelocityImage, prop,
                  dtMin >>

\* a sequence without its k-th element
RemoveAt(seq, k) ==
    [j \in 1 .. Len(seq) - 1 |-> IF j < k THEN seq[j] ELSE seq[j + 1]]

\* onAdd(map, gl): the layer creates its visualiser
onAdd ==
    /\ ~layer.map
    /\ layer' = [layer EXCEPT !.map = TRUE, !.visualiser = TRUE]
    /\ Done("onAdd", FALSE)
    /\ UNCHANGED << layerFixed, imageFields, isRendering, bufTag,
                    liveBuffers, destructed >>

\* onRemove(): abort the fetches, destruct the visualiser and drop it
onRemove ==
    /\ layer.map /\ layer.visualiser
    /\ layer' = [layer EXCEPT !.aborted = TRUE, !.visualiser = FALSE]
    /\ destructFields
    /\ Done("onRemove", FALSE)
    /\ UNCHANGED << layerFixed, isRendering, previousParticleTexture,
                    currentParticleTexture, previousFramebuffer,
                    currentFramebuffer, nextTexture, velocityImage,
                    finalVelocityImage, prop, dtMin >>

\* the number of a new call: the smallest one no waiting call has
FreeUpdate ==
    CHOOSE u \in 1 .. MaxFetches :
        /\ \A j \in DOMAIN layer.pending : layer.pending[j].update # u
        /\ \A v \in 1 .. u - 1 :
              \E j \in DOMAIN layer.pending : layer.pending[j].update = v

\* the waiting calls made before the one at position k have been overtaken
MarkOvertaken(seq, k) ==
    [j \in DOMAIN seq |->
        IF j < k THEN [seq[j] EXCEPT !.overtaken = TRUE] ELSE seq[j]]

\* updateVelocityField(doResetParticles) up to its await (lines 1050-1101),
\* with boundingBox the box of the map's bounds at the time of the call:
\* onStartLoading, setDimensions and start on the visualiser, then the
\* fetch is sent
updateVelocityField(doResetParticles, boundingBox) ==
    /\ layer.map
    /\ Len(layer.pending) < MaxFetches
    /\ IF layer.visualiser /\ (~particlePropagator \/ ~particleRenderer
                               \/ ~isInitialised)
       THEN \* setDimensions or start throws: the call rejects
            /\ Done("updateVelocityField", TRUE)
            /\ layer' = [layer EXCEPT !.loading[FreeUpdate] = "returned"]
            /\ UNCHANGED isRendering
       ELSE /\ isRendering' = IF layer.visualiser THEN TRUE ELSE isRendering
            /\ layer' = [layer EXCEPT
                           !.pending =
                               Append(@, [doResetParticles |-> doResetParticles,
                                          boundingBox |-> boundingBox,
                                          update |-> FreeUpdate,
                                          overtaken |-> FALSE]),
                           !.reported = FALSE,
                           !.loading[FreeUpdate] = "started"]
            /\ Done("updateVelocityField", FALSE)
    /\ UNCHANGED << layerFixed, imageFields, bufTag, liveBuffers,
                    destructed >>

\* the catch block of updateVelocityField (lines 1103-1115) for the call
\* that waits at position k
catchFetchError(k) ==
    /\ layer' = [layer EXCEPT !.pending = RemoveAt(@, k),
                              !.reported = ~layer.aborted,
                              !.boundingBoxWMS = 0,
                              !.loading[layer.pending[k].update] = "returned"]
    /\ isRendering' = IF layer.visualiser THEN FALSE ELSE isRendering

\* the fetch of the call at position k resolves with velocity image i:
\* setVelocityImage, then start (lines 1102, 1117-1123)
fetchResolved(k, i) ==
    /\ k \in 1 .. Len(layer.pending)
    /\ IF ~layer.visualiser
       THEN /\ layer' = [layer EXCEPT
                           !.pending = RemoveAt(@, k),
                           !.reported = FALSE,
                           !.boundingBoxWMS = layer.pending[k].boundingBox,
                           !.loading[layer.pending[k].update] = "ended"]
            /\ Done("updateVelocityField:resolved", FALSE)
            /\ UNCHANGED << imageFields, isRendering >>
       ELSE /\ setVelocityImageFields(i, layer.pending[k].doResetParticles)
            /\ IF setVelocityImageThrows
               THEN /\ catchFetchError(k)
                    /\ Done("updateVelocityField:caught", FALSE)
               ELSE IF ~isInitialised
               THEN \* start throws: the call rejects
                    /\ layer' = [layer EXCEPT
                           !.pending = RemoveAt(MarkOvertaken(@, k), k),
                           !.reported = FALSE,
                           !.imageBox = layer.pending[k].boundingBox,
                           !.imageOvertaken = layer.pending[k].overtaken,
                           !.loading[layer.pending[k].update] = "returned"]
                    /\ Done("updateVelocityField:resolved", TRUE)
                    /\ UNCHANGED isRendering
               ELSE /\ layer' = [layer EXCEPT
                           !.pending = RemoveAt(MarkOvertaken(@, k), k),
                           !.reported = FALSE,
                           !.boundingBoxWMS = layer.pending[k].boundingBox,
                           !.imageBox = layer.pending[k].boundingBox,
                           !.imageOvertaken = layer.pending[k].overtaken,
                           !.loading[layer.pending[k].update] = "ended"]
                    /\ isRendering' = TRUE
                    /\ Done("updateVelocityField:resolved", FALSE)
    /\ UNCHANGED << layerFixed, bufTag, liveBuffers, destructed >>

\* the fetch of the call at position k rejects: the request failed, the
\* image was empty, or the signal was aborted
fetchRejected(k) ==
    /\ k \in 1 .. Len(layer.pending)
    /\ catchFetchError(k)
    /\ Done("updateVelocityField:failed", FALSE)
    /\ UNCHANGED << layerFixed, imageFields, bufTag, liveBuffers,
                    destructed >>

\* render(): the frame is rendered when the layer has a map, a bounding box
\* and a visualiser (lines 796-798, 835)
render(dt) ==
    /\ layer.map /\ layer.boundingBoxWMS # 0 /\ layer.visualiser
    /\ renderFrame(dt)

\* onResizeStart: this._visualiser?.stop()
onResizeStart == layer.visualiser /\ stop

\* this._visualiser.initialise(colormap) of WMSStreamlineLayer.initialise
layerInitialise(c) == layer.visualiser /\ initialise(c)

LayerImages == {1, 2}

\* the bounding boxes of the map at the time of an update
LayerBoxes == {1, 2}

NextLayer ==
    \/ onAdd
    \/ onRemove
    \/ \E c \in ColorMaps : layerInitialise(c)
    \/ \E ok \in BOOLEAN : initialiseLinked(ok)
    \/ \E r \in BOOLEAN, b \in LayerBoxes : updateVelocityField(r, b)
    \/ \E k \in 1 .. MaxFetches, i \in LayerImages : fetchResolved(k, i)
    \/ \E k \in 1 .. MaxFetches : fetchRejected(k)
    \/ \E dt \in DtSet : render(dt)
    \/ onResizeStart

SpecLayer == InitStep /\ [][NextLayer]_vars

\* a step in which the fetch of an updateVelocityField call fails or is
\* aborted
FetchFailedStep ==
    /\ lastOp' = "updateVelocityField:failed"
    /\ layer'.pending # layer.pending

\* C14: when a velocity-field fetch fails or is aborted, updateVelocityField
\* leaves the visualiser Stopped (isRendering false) and its velocity image
\* unchanged (the last field set is retained, in the visualiser, the
\* propagator and the compositor, and is not null once a field has been
\* set); an error is reported exactly when the failure was not caused by an
\* abort.
C14_FetchFailureStopsAndRetainsField ==
    [][ FetchFailedStep =>
            /\ ~isRendering'
            /\ velocityImage' = velocityImage
            /\ prop'.velocityImage = prop.velocityImage
            /\ prop'.velocityTexture = prop.velocityTexture
            /\ finalVelocityImage' = finalVelocityImage
            /\ layer'.reported = ~layer.aborted ]_vars

-----------------------------------------------------------------------------
\* ShaderProgram (src/src/utils/shader-program.ts) with its two shaders
\* (src/src/utils/shader.ts).

\* link() calls that may be suspended at the same time
MaxLinkCalls == 2

\* the active attributes and uniforms of the linked program, and the names
\* looked up
ActiveAttributes == {"a_position"}
ActiveUniforms == {"u_texture"}
LookupNames == {"a_position", "u_texture", "non_existent"}

\* every variable but the shader program and the record of the last call
allButProgram == << visState, mode, pdata, initPc, initCalls, initCompleted,
                    layer, destructed, speedExponent, particleData >>

\* gl.getProgramParameter(program, gl.LINK_STATUS): a program links when
\* both shaders compiled and are compatible; the status of a deleted program
\* cannot be read (null)
LinkStatus(p) == ~p.deleted /\ p.vertexOk /\ p.fragmentOk /\ p.linkable

\* GL calls are counted up to this number
MaxCounted == 2

\* one more GL call
Counted(calls) == IF calls < MaxCounted THEN calls + 1 ELSE calls

\* link() up to `await this.waitForLinking()`: compile() of both shaders
\* (shader.ts:27-37), then gl.linkProgram
link ==
    /\ program.linking < MaxLinkCalls
    /\ IF program.isLinked
       THEN \* Do not try to link more than once.
            /\ program' = [program EXCEPT !.name = "", !.result = ""]
            /\ Done("link", FALSE)
       ELSE /\ program' = [program EXCEPT
                             !.compileAttempts = TRUE,
                             !.compileShaderCalls =
                                 IF program.compileAttempts THEN @
                                 ELSE Counted(@),
                             !.linkProgramCalls = Counted(@),
                             !.linking = @ + 1,
                             !.name = "", !.result = ""]
            /\ Done("link:await", FALSE)
    /\ UNCHANGED allButProgram

\* link() after the await, without checkLinkStatus
linkCompletedUnchecked ==
    /\ program.linking > 0
    /\ program' = [program EXCEPT !.linking = @ - 1,
                                  !.attributes = ActiveAttributes,
                                  !.uniforms = ActiveUniforms,
                                  !.isLinked = TRUE, !.linkedOk = TRUE,
                                  !.name = "", !.result = ""]
    /\ Done("link", FALSE)
    /\ UNCHANGED allButProgram

\* link() after the await: checkLinkStatus, updateActiveAttributes,
\* updateActiveUniforms, isLinked = true
linkCompleted ==
    /\ program.linking > 0
    /\ IF ~LinkStatus(program)
       THEN \* 'Failed to compile ... shader' or 'Failed to link program'
            /\ program' = [program EXCEPT !.linking = @ - 1,
                                          !.name = "", !.result = ""]
            /\ Done("link", TRUE)
       ELSE /\ program' = [program EXCEPT !.linking = @ - 1,
                                          !.attributes = ActiveAttributes,
                                          !.uniforms = ActiveUniforms,
                                          !.isLinked = TRUE,
                                          !.linkedOk = TRUE,
                                          !.name = "", !.result = ""]
            /\ Done("link", FALSE)
    /\ UNCHANGED allButProgram

\* use()
use ==
    /\ program' = [program EXCEPT !.name = "", !.result = ""]
    /\ Done("use", ~program.isLinked)
    /\ UNCHANGED allButProgram

\* getAttributeLocation(name)
getAttributeLocation(name) ==
    LET throws == ~program.isLinked \/ name \notin program.attributes
    IN  /\ program' = [program EXCEPT
                         !.name = name,
                         !.result = IF throws THEN "" ELSE "location"]
        /\ Done("getAttributeLocation", throws)
        /\ UNCHANGED allButProgram

\* getUniformLocation(name)
getUniformLocation(name) ==
    LET throws == ~program.isLinked \/ name \notin program.uniforms
    IN  /\ program' = [program EXCEPT
                         !.name = name,
                         !.result = IF throws THEN "" ELSE "location"]
        /\ Done("getUniformLocation", throws)
        /\ UNCHANGED allButProgram

\* ShaderProgram.destruct(): gl.deleteProgram
programDestruct ==
    /\ ~program.deleted
    /\ program' = [program EXCEPT !.deleted = TRUE, !.name = "",
                                  !.result = ""]
    /\ Done("destruct", FALSE)
    /\ UNCHANGED allButProgram

\* a program of any two shaders
InitShader ==
    /\ hasSpriteUrl = FALSE
    /\ mode = "index"
    /\ prop = NewPropagator(0, 0, 0)
    /\ InitFieldsButProgram
    /\ \E v, f, l \in BOOLEAN : program = NewShaderProgram(v, f, l)

NextShader ==
    \/ link
    \/ linkCompleted
    \/ use
    \/ \E name \in LookupNames : getAttributeLocation(name)
    \/ \E name \in LookupNames : getUniformLocation(name)
    \/ programDestruct

SpecShader == InitShader /\ [][NextShader]_vars

\* C15: a ShaderProgram is usable exactly when a link() call has completed
\* successfully.  use(), getAttributeLocation() and getUniformLocation()
\* throw before link() and after a link() that rejected; link() rejects when
\* the vertex or the fragment shader fails to compile; after a successful
\* link() use() does not throw, a lookup of an active attribute or uniform
\* name returns a location and a lookup of an unknown name throws.
C15_UsableIffLinked ==
    /\ program.isLinked <=> program.linkedOk
    /\ program.linkedOk => program.vertexOk /\ program.fragmentOk
    /\ (lastOp = "link" /\ ~program.linkedOk
          /\ (~program.vertexOk \/ ~program.fragmentOk)) => threw
    /\ lastOp = "use" => (threw <=> ~program.linkedOk)
    /\ lastOp = "getAttributeLocation" =>
          /\ threw <=> (~program.linkedOk
                          \/ program.name \notin ActiveAttributes)
          /\ ~threw => program.result = "location"
    /\ lastOp = "getUniformLocation" =>
          /\ threw <=> (~program.linkedOk
                          \/ program.name \notin ActiveUniforms)
          /\ ~threw => program.result = "location"

\* C15 happens: a lookup of an active uniform on a linked program returned
\* a location
C15_Witness ==
    /\ lastOp = "getUniformLocation" /\ ~threw
    /\ program.linkedOk /\ program.name = "u_texture"
    /\ program.result = "location"

-----------------------------------------------------------------------------
\* The speed curve: the visualiser driven through initialise, setColorMap
\* and updateOptions with speed factors and speed exponents.

CurveColorMaps == {1, 2}
CurveSpeedFactors == {1, 2}
CurveExponents == { << >>, <<1>>, <<2>> }

\* initialise(colormap) on a visualiser that has no propagator yet
firstInitialise(c) == ~particlePropagator /\ initialise(c)

NextCurve ==
    \/ \E c \in CurveColorMaps : firstInitialise(c)
    \/ \E ok \in BOOLEAN : initialiseLinked(ok)
    \/ \E ok \in BOOLEAN : initialiseSprite(ok)
    \/ \E c \in CurveColorMaps : setColorMap(c)
    \/ \E sf \in CurveSpeedFactors, e \in CurveExponents :
          updateOptionsWith(maxDisplacement, sf, e)
    \/ \E i \in VisImages : setVelocityImage(i, FALSE)

SpecCurve == Init /\ [][NextCurve]_vars

\* C16: once initialise has created the propagator, its speed curve is the
\* one built from the current colormap and options, after any sequence of
\* setColorMap and updateOptions calls: exponent = options.speedExponent
\* (1 when undefined), baseFactor = options.speedFactor and
\* factor = baseFactor * end / end^exponent with end the end value of the
\* current colormap; so the transformed speed at speed = end,
\* factor * end^exponent, is baseFactor * end.
C16_SpeedCurveIsCurrent ==
    particlePropagator =>
        LET curve == prop.speedCurve
            end   == ColormapEnd(colorMap)
        IN  /\ curve.exponent = ExponentOrDefault(speedExponent)
            /\ curve.baseFactor = speedFactor
            /\ ExtEq(curve.factor,
                     ExtDiv(Fin(speedFactor * end, 1),
                            Fin(Pow(end, curve.exponent), 1)))
            /\ ExtEq(ExtMul(curve.factor, Fin(Pow(end, curve.exponent), 1)),
                     Fin(curve.baseFactor * end, 1))

\* C16 happens: after a setColorMap that followed an updateOptions the
\* curve has exponent 2 and a factor that is not the base factor
C16_Witness ==
    /\ lastOp = "setColorMap" /\ ~threw
    /\ speedExponent = <<2>> /\ speedFactor = 2 /\ colorMap = 2
    /\ prop.speedCurve.exponent = 2
    /\ ExtEq(prop.speedCurve.factor, Fin(2, 3))

-----------------------------------------------------------------------------
\* The largest velocity of an image and the minimum time step.

AbsInt(a) == IF a < 0 THEN 0 - a ELSE a

\* C17: for every (uScale, uOffset, vScale, vOffset), maxVelocity() returns
\* per axis the largest absolute physical velocity at the raw extremes,
\* max(|offset|, |scale + offset|); neither component is negative, and the
\* minimum time step computed from it for the current image is not negative.
C17_MaxVelocityIsLargestMagnitude ==
    velocityImage # 0 =>
        LET img == Images[velocityImage]
            mv  == maxVelocity(img)
        IN  /\ mv[1] = MaxInt(AbsInt(img.uOffset),
                              AbsInt(img.uScale + img.uOffset))
            /\ mv[2] = MaxInt(AbsInt(img.vOffset),
                              AbsInt(img.vScale + img.vOffset))
            /\ mv[1] >= 0 /\ mv[2] >= 0
            /\ ~ExtLt(dtMin, Fin(0, 1))

-----------------------------------------------------------------------------
\* The order of the passes of a frame: the visualiser with or without a
\* sprite, rendered with frame times that need one, several or the maximum
\* number of substeps.

FrameDts == {-1, 1, 5}

NextFrame ==
    \/ \E c \in ColorMaps : initialise(c)
    \/ \E ok \in BOOLEAN : initialiseLinked(ok)
    \/ \E ok \in BOOLEAN : initialiseSprite(ok)
    \/ start
    \/ \E i \in StepImages : setVelocityImage(i, FALSE)
    \/ \E md \in StepDisplacements, sf \in StepSpeedFactors :
          updateOptions(md, sf)
    \/ \E dt \in FrameDts : renderFrame(dt)

SpecFrame == Init /\ [][NextFrame]_vars

\* the operations of the last frame, in the order they were issued
FrameOps == [k \in DOMAIN passes |-> passes[k].op]

NumOps(op) == Cardinality({ k \in DOMAIN passes : passes[k].op = op })

RECURSIVE SubStepOps(_, _)
\* substeps i .. n-1: accumulate, update, render, and a swap when i < n-1
SubStepOps(i, n) ==
    IF i >= n THEN << >>
    ELSE << "accumulate", "update", "render" >>
         \o (IF i < n - 1 THEN << "swap" >> ELSE << >>)
         \o SubStepOps(i + 1, n)

\* the frame of n substeps as the claim lists it
OrderedOps(n, sprite) ==
    SubStepOps(0, n) \o << "final" >>
    \o (IF sprite THEN << "sprite" >> ELSE << >>) \o << "swap" >>

\* C18: a Running frame with n substeps issues, for each substep
\* i = 0..n-1, the accumulate pass, the propagator update and the particle
\* render, with a trail swap after substep i exactly when i < n-1; then the
\* final composite, the sprite overlay if there is a sprite renderer, and
\* one trail swap.  The frame performs exactly n trail swaps and n
\* propagator swaps (one per update).
C18_PassOrder ==
    (lastOp = "renderFrame" /\ frame.running /\ frame.stepped) =>
        /\ IsFin(frame.n) /\ frame.n.d = 1
        /\ FrameOps = OrderedOps(frame.n.n, spriteRenderer)
        /\ NumOps("swap") = frame.n.n
        /\ NumOps("update") = frame.n.n

-----------------------------------------------------------------------------
\* Storage roles: the visualiser with a propagator of either version, driven
\* through the calls that replace trail textures or particle buffers, and
\* rendered with one and with several substeps.

StorageDts == {1, 5}
StorageAges == {1}

\* a visualiser without a sprite whose propagator is of either version
InitStorage ==
    /\ hasSpriteUrl = FALSE
    /\ mode \in {"index", "age"}
    /\ prop = NewPropagator(0, 0, 0)
    /\ InitFields

\* particlePropagator.setMaxAge(age) (age version) on an initialised
\* visualiser: setMaxAge sets the field and calls resetBuffers
setMaxAge(age) ==
    /\ mode = "age"
    /\ particlePropagator
    /\ nextBuffer + 1 <= MaxBuffers
    /\ prop' = PropSetMaxAge(prop, age, nextBuffer, nextBuffer + 1)
    /\ bufTag' = TagsAfterReset(prop, nextBuffer, nextBuffer + 1)
    /\ liveBuffers' = (liveBuffers \ {prop.inputBuffers, prop.outputBuffers})
                         \cup {nextBuffer, nextBuffer + 1}
    /\ nextBuffer' = nextBuffer + 2
    /\ particleData' =
          [particleData EXCEPT !.capacity =
              CapacityAfterReset(nextBuffer, nextBuffer + 1,
                                 prop.numParticlesAllocate)]
    /\ Done("setMaxAge", FALSE)
    /\ UNCHANGED << visFieldsButData, pdata >>

NextStorage ==
    \/ \E c \in ColorMaps : initialise(c)
    \/ \E ok \in BOOLEAN : initialiseLinked(ok)
    \/ start
    \/ \E d \in Dimensions : setDimensions(d[1], d[2])
    \/ \E n \in ParticleCounts : setNumParticles(n)
    \/ \E age \in StorageAges : setMaxAge(age)
    \/ \E i \in VisImages, r \in BOOLEAN : setVelocityImage(i, r)
    \/ \E dt \in StorageDts : renderFrame(dt)

SpecStorage == InitStorage /\ [][NextStorage]_vars

\* C19: no pass of a frame reads and writes the same storage: the texture
\* an accumulate pass reads is not the colour attachment of the framebuffer
\* it draws into, and the buffer a propagator update reads is not the buffer
\* it writes, after any sequence of initialise, setDimensions,
\* setNumParticles, setMaxAge, setVelocityImage and renderFrame.
C19_NoPassReadsWhatItWrites ==
    \A k \in DOMAIN passes :
        passes[k].op \in {"accumulate", "update"} =>
            /\ passes[k].src # 0
            /\ passes[k].src # passes[k].dst

\* C19 happens: a frame of two substeps after the trail textures and the
\* particle buffers have been replaced
C19_Witness ==
    /\ lastOp = "renderFrame" /\ ~threw
    /\ Len(passes) >= 8
    /\ width # height
    /\ prop.maxAge = 1
    /\ passes[1].op = "accumulate" /\ passes[2].op = "update"

-----------------------------------------------------------------------------
\* The order of the per-particle decision (age version), under SpecProp.

\* the branch the claimed priority order selects for input particle p
ClaimedBranch(p, maxAge) ==
    IF p.age > maxAge THEN "Eliminate"
    ELSE IF OutOfBounds(p) THEN "OutOfBounds"
    ELSE IF ZeroVelocity(p) THEN "NoField"
    ELSE "Advance"

\* C20: in every update of the age version each particle is handled by the
\* first condition that applies in the order Eliminate (too old),
\* OutOfBounds, NoField, Advance: a particle that is too old or out of
\* bounds is written with age 0 even when its stored velocity is the zero
\* sentinel, and a random age in [0, maxAge) is written only when NoField is
\* the first condition that applies.
C20_DecisionOrder ==
    [][ (UpdateStep /\ ~threw' /\ mode = "age") =>
          \A k \in 1 .. prop.numParticles :
             LET p == pdata.parts[prop'.readAt][k]
                 o == pdata'.parts[prop'.written][k]
             IN  /\ o.br = ClaimedBranch(p, prop.maxAge)
                 /\ (p.age > prop.maxAge \/ OutOfBounds(p)) => o.age = 0
                 /\ o.br = "NoField" =>
                       /\ ~(p.age > prop.maxAge) /\ ~OutOfBounds(p)
                       /\ o.age \in RandomAges(prop.maxAge) ]_vars

-----------------------------------------------------------------------------
\* Particle data textures: the visualiser, with or without a sprite, driven
\* through setNumParticles with counts below, at and above a square, and
\* rendered.

DataCounts == 1 .. 5

NextData ==
    \/ \E c \in ColorMaps : initialise(c)
    \/ \E ok \in BOOLEAN : initialiseLinked(ok)
    \/ \E ok \in BOOLEAN : initialiseSprite(ok)
    \/ start
    \/ \E n \in DataCounts : setNumParticles(n)
    \/ \E i \in VisImages : setVelocityImage(i, FALSE)
    \/ \E dt \in DtSet : renderFrame(dt)

\* a visualiser constructed with any of the particle counts
InitData ==
    /\ hasSpriteUrl \in BOOLEAN
    /\ mode = "index"
    /\ prop = NewPropagator(0, 0, 0)
    /\ numParticles \in DataCounts
    /\ InitFieldsButCount
    /\ program = NewShaderProgram(TRUE, TRUE, TRUE)

SpecData == InitData /\ [][NextData]_vars

\* updateParticleDataTextureFromBuffer: texSubImage2D unpacks the buffer row
\* by row, so slot k of the buffer becomes the texel << x, y >> with
\* x = k % w (column) and y = k / w (row) of a texture w wide
UnpackedTexel(k, w) == << k % w, k \div w >>

\* render.vert.glsl, main: ivec2 texture_indices =
\*     ivec2(gl_InstanceID / u_width, gl_InstanceID % u_width),
\* the << x, y >> handed to texelFetch
texture_indices(i, w) == << i \div w, i % w >>

\* the buffer slot whose data texelFetch returns for instance i
FetchedSlot(i, w) ==
    CHOOSE k \in 0 .. (w * w - 1) : UnpackedTexel(k, w) = texture_indices(i, w)

\* gl.drawArraysInstanced(gl.TRIANGLE_STRIP, 0, 4, this.numParticles) of
\* renderer r: the slot drawn by each instance
DrawnSlots(r) ==
    [i \in 0 .. (r.numParticles - 1) |->
        FetchedSlot(i, r.widthParticleDataTexture)]

\* C21: in every particle render pass, for every instance index i in
\* [0, n) the vertex stage fetches the texel that holds particle i of the
\* propagator's output buffer; so every live particle is drawn exactly once
\* and no slot with index >= n is drawn.
C21_InstanceFetchesItsParticle ==
    (lastOp = "renderFrame" /\ NumOps("render") >= 1) =>
        LET r == particleData.particle
            d == DrawnSlots(r)
        IN  /\ r.numParticles >= 1
            /\ \A i \in DOMAIN d : d[i] = i
            /\ \A j \in 0 .. (r.numParticles - 1) :
                  Cardinality({ i \in DOMAIN d : d[i] = j }) = 1
            /\ \A i \in DOMAIN d : d[i] < r.numParticles

\* C22: the particle data texture is w x w with w the smallest integer such
\* that w * w >= numParticles, and once the renderers exist, after any
\* sequence of setNumParticles calls, each buffer of the propagator has room
\* for w * w particles and the propagator, the particle renderer and the
\* sprite renderer (if there is one) hold the visualiser's numParticles and
\* the same texture dimensions.
C22_ParticleDataSizes ==
    LET w == widthParticleDataTexture(numParticles)
        r == ParticleRendererData(numParticles, w, w)
    IN  /\ w * w >= numParticles
        /\ \A v \in 0 .. (w - 1) : v * v < numParticles
        /\ heightParticleDataTexture(numParticles) = w
        /\ particlePropagator =>
              /\ prop.numParticles = numParticles
              /\ prop.numParticlesAllocate = w * w
              /\ prop.inputBuffers # 0 /\ prop.outputBuffers # 0
              /\ particleData.capacity[prop.inputBuffers] = w * w
              /\ particleData.capacity[prop.outputBuffers] = w * w
        /\ particleRenderer => particleData.particle = r
        /\ spriteRenderer => particleData.sprite = r

\* C22 happens: setNumParticles(5) on a visualiser with a sprite renderer
\* has made the textures 3 x 3 and the buffers 9 particles large
C22_Witness ==
    /\ lastOp = "setNumParticles" /\ ~threw
    /\ spriteRenderer
    /\ numParticles = 5
    /\ particleData.sprite.widthParticleDataTexture = 3
    /\ particleData.capacity[prop.outputBuffers] = 9

-----------------------------------------------------------------------------
\* Live GPU objects, under Spec.

\* C23: between a completed initialise and destruct exactly two particle
\* buffers and exactly two trail textures are live: each operation that
\* replaces them (setNumParticles, setDimensions, setVelocityImage with
\* reset) deletes the two it replaces; and after destruct() no buffer and no
\* texture the visualiser created is live.
C23_TwoLiveCopies ==
    /\ (initCompleted /\ ~destructed) =>
          /\ Cardinality(liveBuffers) = 2
          /\ Cardinality(liveTextures) = 2
          /\ liveBuffers = {prop.inputBuffers, prop.outputBuffers}
          /\ liveTextures = {previousParticleTexture, currentParticleTexture}
    /\ (destructed /\ lastOp = "destruct") =>
          liveBuffers = {} /\ liveTextures = {}

-----------------------------------------------------------------------------
\* Index elimination: the propagator of the index version with one or two
\* particles, updated with elimination rates that select no, one or all
\* particles.

EliminateCounts == {1, 2}
EliminateRates == {0, 1, 2}
EliminateImages == {1}

\* new ParticlePropagator(program, width, height, n, numParticlesAllocate,
\* numEliminatePerSecond, speedCurve) of the index version
InitEliminate ==
    /\ hasSpriteUrl = FALSE
    /\ mode = "index"
    /\ \E n \in EliminateCounts :
          prop = NewPropagator(n, numParticlesAllocate(n), 0)
    /\ InitFields

NextEliminate ==
    \/ propInitialise
    \/ \E i \in EliminateImages : propSetVelocityImage(i)
    \/ \E r \in EliminateRates : propSetNumEliminatePerSecond(r)
    \/ \E dt \in PropDts : propUpdate(dt)

SpecEliminate == InitEliminate /\ [][NextEliminate]_vars

\* the indices (from 1) of the particles the last update wrote through the
\* Eliminate branch
EliminatedIndices(parts) ==
    { k \in DOMAIN parts : parts[k].br = "Eliminate" }

\* C24: in index-elimination mode each update(dt) respawns through its
\* Eliminate branch exactly the particles of one contiguous range of
\* floor(numEliminatePerSecond * dt) indices inside [0, numParticles), and
\* all particles when that count is at least numParticles, whatever start
\* index is drawn.
C24_EliminatesOneFullRange ==
    [][ (UpdateStep /\ ~threw' /\ mode = "index") =>
          LET n   == prop.numParticles
              num == prop.numEliminatePerSecond * pdata'.dt
              E   == EliminatedIndices(pdata'.parts[prop'.written])
          IN  IF num >= n THEN E = 1 .. n
              ELSE \E a \in 1 .. n :
                      /\ a + num - 1 <= n
                      /\ E = a .. (a + num - 1) ]_vars

-----------------------------------------------------------------------------
\* Which texture a frame draws and which it shows, under SpecStorage.

\* positions of the passes op in a pass log
PassesOf(log, op) == { k \in DOMAIN log : log[k].op = op }

\* the colour attachment the last particle render pass before position k of
\* the log drew into; 0 when there is none
DrawnBefore(log, k) ==
    LET before == { j \in PassesOf(log, "render") : j < k }
    IN  IF before = {} THEN 0
        ELSE log[CHOOSE j \in before : \A i \in before : i <= j].dst

\* C25: in every Running frame the texture the final compositor samples is
\* the colour attachment of the framebuffer into which the last substep's
\* accumulate and particle passes drew, and the texture faded in each
\* accumulate pass is the one drawn in the preceding substep, or in the
\* preceding frame for the first substep, after any sequence of
\* setDimensions, setNumParticles, setVelocityImage and renderFrame calls.
\* A frame without substeps draws nothing and is left out.
C25_CompositorShowsWhatWasDrawn ==
    [][ (lastOp' = "renderFrame" /\ ~threw' /\ passes' # << >>) =>
          /\ \A k \in PassesOf(passes', "final") :
                DrawnBefore(passes', k) # 0
                => passes'[k].src = DrawnBefore(passes', k)
          /\ \A k \in PassesOf(passes', "render") :
                passes'[k - 2].op = "accumulate"
                /\ passes'[k - 2].dst = passes'[k].dst
          /\ \A k \in PassesOf(passes', "accumulate") :
                IF DrawnBefore(passes', k) # 0
                THEN passes'[k].src = DrawnBefore(passes', k)
                ELSE (lastOp = "renderFrame" /\ ~threw
                      /\ PassesOf(passes, "render") # {})
                     => passes'[k].src = DrawnBefore(passes, Len(passes)) ]_vars

-----------------------------------------------------------------------------
\* What isInitialised promises, under Spec.

\* the last call was a renderFrame that raised 'Visualiser was not
\* initialised before attempting to render frame': the error leaves every
\* field as it found it, and the later errors of a frame are raised only
\* when all six fields are set
RaisedNotInitialised ==
    /\ lastOp = "renderFrame" /\ threw
    /\ \/ ~textureRenderer \/ ~particlePropagator \/ ~particleRenderer
       \/ ~finalRenderer
       \/ previousParticleTexture = 0 \/ currentParticleTexture = 0

\* C26: isInitialised is true only when initialise() has fully completed;
\* it implies that both trail textures are allocated and attached to the
\* two framebuffers, so that no renderFrame of a visualiser that reports
\* isInitialised raises the 'not initialised' error.
C26_IsInitialisedMeansComplete ==
    isInitialised =>
        /\ initCompleted
        /\ previousParticleTexture # 0
        /\ currentParticleTexture # 0
        /\ previousFramebuffer # 0
        /\ currentFramebuffer # 0
        /\ ~RaisedNotInitialised

-----------------------------------------------------------------------------
\* Overlapping velocity-field updates of the layer and their loading
\* callbacks, with onStartLoading and onEndLoading registered
\* (visualiser.ts:844-850).

\* the awaited fetch of the waiting updateVelocityField call u settles
fetchSettles(u) ==
    \E k \in DOMAIN layer.pending :
        /\ layer.pending[k].update = u
        /\ \/ \E i \in LayerImages : fetchResolved(k, i)
           \/ fetchRejected(k)

NextLoading ==
    \/ onAdd
    \/ onRemove
    \/ \E c \in ColorMaps : layerInitialise(c)
    \/ \E ok \in BOOLEAN : initialiseLinked(ok)
    \/ \E r \in BOOLEAN, b \in LayerBoxes : updateVelocityField(r, b)
    \/ \E u \in 1 .. MaxFetches : fetchSettles(u)

\* every fetch settles: it resolves, fails, or is aborted with the signal
SpecLoading ==
    /\ InitStep /\ [][NextLoading]_vars
    /\ \A u \in 1 .. MaxFetches : WF_vars(fetchSettles(u))

\* C27: when two velocity-field updates of the layer overlap, after both
\* have settled the visualiser holds the field of the update requested
\* later, whatever order the responses arrive in, and boundingBoxWMS is
\* that update's box; whenever boundingBoxWMS is not null it is the box
\* with which the visualiser's current velocity image was fetched.
C27_LaterUpdateWins ==
    /\ (layer.visualiser /\ layer.pending = << >>) => ~layer.imageOvertaken
    /\ (layer.visualiser /\ layer.boundingBoxWMS # 0)
          => layer.boundingBoxWMS = layer.imageBox

\* C28: every start-loading callback of an update is eventually followed by
\* the end-loading callback of that update, whether its fetch succeeds,
\* fails or is aborted.
C28_EndLoadingFollowsStartLoading ==
    \A u \in 1 .. MaxFetches :
        (layer.loading[u] = "started") ~> (layer.loading[u] = "ended")

-----------------------------------------------------------------------------
\* GL calls issued for one ShaderProgram, under SpecShader.

\* C29: for one ShaderProgram gl.linkProgram is issued at most once, under
\* any interleaving of link() calls, including a second link() made while
\* the first one is still polling for completion, and each of its shaders
\* is compiled at most once.
C29_LinkedAndCompiledOnce ==
    /\ program.linkProgramCalls <= 1
    /\ program.compileShaderCalls <= 1

-----------------------------------------------------------------------------
\* Calls on an uninitialised visualiser, under Spec.

\* the methods that change the visualiser and throw when it is not
\* initialised
Mutators == {"setDimensions", "setNumParticles", "setColorMap",
             "setVelocityImage(true)", "setVelocityImage(false)",
             "updateOptions", "start"}

\* C30: when setDimensions, setNumParticles, setColorMap, setVelocityImage,
\* updateOptions or start throws because the visualiser is uninitialised, it
\* has changed no state of the visualiser; in particular
\* setVelocityImage(image, true) has allocated no trail textures and stored
\* no velocity image before throwing.
C30_ThrowingCallChangesNothing ==
    [][ (lastOp' \in Mutators /\ threw') =>
            /\ visState' = visState
            /\ ctl' = ctl ]_vars

====
